---- MODULE Spec2Model ----
(***************************************************************************)
(* A model of github.com/alecthomas/sequel: the query lexer, the recursive *)
(* parameter expansion (expand / expandParameter), the row builder derived *)
(* from a record type, and the three dialects.                             *)
(*                                                                         *)
(* A Go string is a sequence of one-character strings, so that lexing,     *)
(* quoting and formatting are computed character by character.             *)
(***************************************************************************)
EXTENDS Integers, Sequences, FiniteSets, TLC

VARIABLES dialect, withManaged, b, query, args,   \* the parameters of expand
          matches, mi,                            \* the lexer's matches, the loop position
          w, out, argi, outIndex,                 \* the locals of expand
          ret,                                    \* what expand returned
          bound,                                  \* history: what each placeholder consumed and wrote
          rows,                                   \* the rows a caller passes to Insert
          ins,                                    \* the locals of Insert, and what it returned
          ops,                                    \* the executor (sqlOps): its calls and its answer
          sel,                                    \* the locals of Select, and what it returned
          rb,                                     \* rowBuilderCache, rowBuilderLock and the goroutines using them
          tx                                      \* a Transaction and the error its caller refers to

vars == <<dialect, withManaged, b, query, args, matches, mi, w, out, argi, outIndex, ret, bound,
          rows, ins, ops, sel, rb, tx>>

\* The cache of row builders and the transaction.
sysVars == <<rb, tx>>

\* What the calls of Insert and Select own, and what expand never touches.
callVars == <<rows, ins, ops, sel, rb, tx>>

\* Longest query of the general input family.
MaxQueryLen == 3
\* Longest query of the lexer input family.
MaxLexLen == 5
\* Most bound arguments of the general input family.
MaxArgs == 2
\* Most rows in a slice of records.
MaxRows == 2

(***************************************************************************)
(* Strings                                                                 *)
(***************************************************************************)
DQ == "\""
SQ == "'"
\* The back-quote character (a TLA+ string cannot hold one, so it is written BQ).
BT == "BQ"
BS == "\\"

RECURSIVE Strings(_, _)
Strings(alphabet, n) ==
    IF n = 0 THEN {<<>>}
    ELSE LET shorter == Strings(alphabet, n - 1)
         IN shorter \cup {Append(s, c) : s \in {t \in shorter : Len(t) = n - 1}, c \in alphabet}

RECURSIVE Concat(_)
Concat(ss) == IF ss = <<>> THEN <<>> ELSE Head(ss) \o Concat(Tail(ss))

\* strings.Join(ss, sep)
RECURSIVE Join(_, _)
Join(ss, sep) ==
    IF ss = <<>> THEN <<>>
    ELSE IF Len(ss) = 1 THEN ss[1]
    ELSE ss[1] \o sep \o Join(Tail(ss), sep)

\* strings.Split(s, ","): the pieces of s between commas (one piece when there is none).
RECURSIVE Split(_)
Split(s) ==
    IF \A i \in 1..Len(s) : s[i] # ","
    THEN <<s>>
    ELSE LET i == CHOOSE j \in 1..Len(s) : s[j] = "," /\ \A k \in 1..(j - 1) : s[k] # ","
         IN <<SubSeq(s, 1, i - 1)>> \o Split(SubSeq(s, i + 1, Len(s)))

\* The decimal digits of n >= 0, as the verb %d of fmt writes them.
RECURSIVE Itoa(_)
Itoa(n) ==
    LET digit == <<"0", "1", "2", "3", "4", "5", "6", "7", "8", "9">>
    IN IF n < 10 THEN <<digit[n + 1]>> ELSE Itoa(n \div 10) \o <<digit[(n % 10) + 1]>>

(***************************************************************************)
(* lexerRegex and FindAllStringSubmatch                                    *)
(***************************************************************************)
\* The index of the first c in s at or after position p, 0 when there is none.
IndexFrom(s, p, c) ==
    IF \E i \in p..Len(s) : s[i] = c
    THEN CHOOSE i \in p..Len(s) : s[i] = c /\ \A j \in p..(i - 1) : s[j] # c
    ELSE 0

\* The character class of the last alternative, [^$*?"']: the back-quote is in it.
InTextClass(c) == c \notin {"$", "*", "?", DQ, SQ}

\* The end of the longest run of text-class characters that starts at p.
TextRunEnd(s, p) ==
    CHOOSE e \in p..Len(s) :
        /\ \A i \in p..e : InTextClass(s[i])
        /\ (e = Len(s) \/ ~InTextClass(s[e + 1]))

\* The first alternative of lexerRegex, in its order, that matches at p:
\* the group that matched and the length of the match (0: nothing matches at p).
\* close is the index of the next occurrence of the character at p, or 0.
Alternative(s, p, c, close) ==
    CASE c = "?" -> [group |-> 1, len |-> 1]
      [] c = "*" /\ p < Len(s) /\ s[p + 1] = "*" -> [group |-> 2, len |-> 2]
      [] c = "*" -> [group |-> 3, len |-> 1]
      [] c = DQ /\ close > 0 -> [group |-> 4, len |-> close - p + 1]
      [] c = SQ /\ close > 0 -> [group |-> 5, len |-> close - p + 1]
      [] c = BT /\ close > 0 -> [group |-> 6, len |-> close - p + 1]
      [] InTextClass(c) -> [group |-> 7, len |-> TextRunEnd(s, p) - p + 1]
      [] OTHER -> [group |-> 0, len |-> 0]

MatchAt(s, p) == Alternative(s, p, s[p], IndexFrom(s, p + 1, s[p]))

\* The successive leftmost matches from position p on; a character at which no
\* alternative matches is passed over and belongs to no match.
RECURSIVE MatchesFrom(_, _)
MatchesAfter(s, p, m) ==
    IF m.len = 0 THEN MatchesFrom(s, p + 1)
    ELSE <<[group |-> m.group, pos |-> p, text |-> SubSeq(s, p, p + m.len - 1)]>>
         \o MatchesFrom(s, p + m.len)

MatchesFrom(s, p) == IF p > Len(s) THEN <<>> ELSE MatchesAfter(s, p, MatchAt(s, p))

FindAllStringSubmatch(s) == MatchesFrom(s, 1)

(***************************************************************************)
(* Record types (reflect.Type of a struct) and their members               *)
(*                                                                         *)
(* A member is a reflect.StructField: snake is the lower-snake-case of its *)
(* Go name (the result of the camelcase package, which is not part of the  *)
(* repository), tag is the value of its db tag, kind the kind of its type, *)
(* scanner whether its type is time.Time, []byte or an sql.Scanner.        *)
(***************************************************************************)
Member(snake, hasTag, tag, kind, anonymous, elem) ==
    [snake |-> snake, hasTag |-> hasTag, tag |-> tag, kind |-> kind,
     anonymous |-> anonymous, scanner |-> FALSE, elem |-> elem]

Plain(snake) == Member(snake, FALSE, <<>>, "int", FALSE, "")
Tagged(snake, tag) == Member(snake, TRUE, tag, "int", FALSE, "")
Embedded(snake, elem) == Member(snake, FALSE, <<>>, "struct", TRUE, elem)

MANAGED == <<"m", "a", "n", "a", "g", "e", "d">>
PK == <<"p", "k">>

\* The members of each struct type, in declaration order.
\*   TEmpty    struct{}
\*   TThree    struct{ A, B, C string }
\*   TMetadata struct{ Email string; Age int }
\*   TUser     struct{ ID int (tag ",managed"); Name string; TestMetadata }
\*   TAccount  struct{ ID int (tag "id,pk,managed"); Owner string (tag "o"q") }
\*   TBadTag   struct{ A int (tag "a,bogus") }
\*   TMid      struct{ A int; TMetadata; Z int (tag ",managed") }
\*   TPk       struct{ ID int (tag ",pk,managed"); Name string }
\*   TTwoPk    struct{ A int (tag ",pk"); B int (tag ",pk") }
\*   TDup      struct{ A int; B int (tag "a") }
\*   TDash     struct{ A int; B int (tag "-") }
TypeFields ==
    [TEmpty |-> <<>>,
     TThree |-> <<Plain(<<"a">>), Plain(<<"b">>), Plain(<<"c">>)>>,
     TMetadata |-> <<Plain(<<"e", "m", "a", "i", "l">>), Plain(<<"a", "g", "e">>)>>,
     TUser |-> <<Tagged(<<"i", "d">>, <<",">> \o MANAGED),
                 Plain(<<"n", "a", "m", "e">>),
                 Embedded(<<"t", "e", "s", "t", "_", "m", "e", "t", "a", "d", "a", "t", "a">>, "TMetadata")>>,
     TAccount |-> <<Tagged(<<"i", "d">>, <<"i", "d", ",">> \o PK \o <<",">> \o MANAGED),
                    Tagged(<<"o", "w", "n", "e", "r">>, <<"o", DQ, "q", BT>>)>>,
     TBadTag |-> <<Tagged(<<"a">>, <<"a", ",", "b", "o", "g", "u", "s">>)>>,
     TMid |-> <<Plain(<<"a">>),
                Embedded(<<"t", "e", "s", "t", "_", "m", "e", "t", "a", "d", "a", "t", "a">>, "TMetadata"),
                Tagged(<<"z">>, <<",">> \o MANAGED)>>,
     TPk |-> <<Tagged(<<"i", "d">>, <<",">> \o PK \o <<",">> \o MANAGED), Plain(<<"n", "a", "m", "e">>)>>,
     TTwoPk |-> <<Tagged(<<"a">>, <<",">> \o PK), Tagged(<<"b">>, <<",">> \o PK)>>,
     TDup |-> <<Plain(<<"a">>), Tagged(<<"b">>, <<"a">>)>>,
     TDash |-> <<Plain(<<"a">>), Tagged(<<"b">>, <<"-">>)>>]

StructTypes == DOMAIN TypeFields

(***************************************************************************)
(* builder.go: parseField, collectFieldIndexes, makeRowBuilderForType      *)
(***************************************************************************)
NoField == [name |-> <<>>, index |-> <<>>, managed |-> FALSE, pk |-> FALSE]

\* The field of a tagged member, parts being the pieces of its tag.
parseTag(f, index, parts) ==
    IF \E i \in 2..Len(parts) : parts[i] \notin {MANAGED, PK}
    THEN [err |-> TRUE, field |-> NoField]
    ELSE [err |-> FALSE,
          field |-> [name |-> IF parts[1] # <<>> THEN parts[1] ELSE f.snake,
                     index |-> index,
                     managed |-> \E i \in 2..Len(parts) : parts[i] = MANAGED,
                     pk |-> \E i \in 2..Len(parts) : parts[i] = PK]]

parseField(f, index) ==
    IF ~f.hasTag
    THEN [err |-> FALSE,
          field |-> [name |-> f.snake, index |-> index, managed |-> FALSE, pk |-> FALSE]]
    ELSE parseTag(f, index, Split(f.tag))

\* The fields that members i, i+1, ... of type t contribute, or the first error.
RECURSIVE collectFrom(_, _)

OneField(parsed) == [err |-> parsed.err, fields |-> IF parsed.err THEN <<>> ELSE <<parsed.field>>]

\* Variant for C14: the promoted fields keep the index they have in the embedded struct.
PromotedUnprefixed(i, sub) == sub

\* The fields of an embedded struct, the index of the member put before theirs.
Promoted(i, sub) ==
    [err |-> sub.err,
     fields |-> IF sub.err THEN <<>>
                ELSE [j \in 1..Len(sub.fields) |-> [sub.fields[j] EXCEPT !.index = <<i>> \o @]]]

\* What member f, at index i (from 0), contributes.
collectMember(f, i) ==
    CASE f.scanner -> OneField(parseField(f, <<i>>))
      [] f.kind = "struct" /\ ~f.anonymous -> [err |-> TRUE, fields |-> <<>>]
      [] f.kind = "struct" -> Promoted(i, collectFrom(f.elem, 1))
      [] f.kind \in {"slice", "array"} -> [err |-> TRUE, fields |-> <<>>]
      [] OTHER -> OneField(parseField(f, <<i>>))

Collected(here, rest) ==
    IF here.err \/ rest.err THEN [err |-> TRUE, fields |-> <<>>]
    ELSE [err |-> FALSE, fields |-> here.fields \o rest.fields]

collectFrom(t, i) ==
    IF i > Len(TypeFields[t]) THEN [err |-> FALSE, fields |-> <<>>]
    ELSE Collected(collectMember(TypeFields[t][i], i - 1), collectFrom(t, i + 1))

collectFieldIndexes(t) == collectFrom(t, 1)

\* The greatest element of a set of indexes, 0 when it is empty (a Go map
\* assignment, or a plain assignment in a loop, keeps the last value).
Last(hits) == IF hits = {} THEN 0 ELSE CHOOSE i \in hits : \A j \in hits : j <= i

NilBuilder == [nil |-> TRUE, t |-> "", fields |-> <<>>, fieldMap |-> <<>>, pk |-> <<>>]

\* pk = field.name, for each field with field.pk
pkOf(fields, lastPk) == IF lastPk = 0 THEN <<>> ELSE fields[lastPk].name

\* b := &builder{t, fields: fieldNames, fieldMap, pk}, from the collected fields.
newBuilder(t, fields) ==
    [nil |-> FALSE,
     t |-> t,
     fields |-> [i \in 1..Len(fields) |-> fields[i].name],
     fieldMap |-> [n \in {fields[i].name : i \in 1..Len(fields)} |->
                      fields[Last({i \in 1..Len(fields) : fields[i].name = n})]],
     pk |-> pkOf(fields, Last({i \in 1..Len(fields) : fields[i].pk}))]

builderOrError(t, c) ==
    IF c.err THEN [err |-> TRUE, b |-> NilBuilder] ELSE [err |-> FALSE, b |-> newBuilder(t, c.fields)]

\* The builder derived for a record type (the part of makeRowBuilderForType
\* that computes the entry; kind is the kind of the indirected type).
makeRowBuilderForType(kind, t) ==
    IF kind # "struct" THEN [err |-> TRUE, b |-> NilBuilder]
    ELSE builderOrError(t, collectFieldIndexes(t))

filteredFields(bd, wm) ==
    LET Keep(name) == wm \/ ~bd.fieldMap[name].managed
    IN SelectSeq(bd.fields, Keep)

(***************************************************************************)
(* Go values (reflect.Value)                                               *)
(*                                                                         *)
(* kind is the reflect.Kind, with three refinements: "valuer" is a value   *)
(* whose type implements driver.Valuer, "nilptr" a nil pointer of a        *)
(* pointer type, "nil" the untyped nil (reflect.ValueOf(nil), the zero     *)
(* Value).  t names the struct type (of a struct, or the type a nil        *)
(* pointer points to), v is a scalar's payload, elems holds the elements   *)
(* of a slice, the member values of a struct, or the one value a pointer   *)
(* points to.  An interface holding a value is the value.                  *)
(***************************************************************************)
Value(kind, t, v, elems) == [kind |-> kind, t |-> t, v |-> v, elems |-> elems]

Scalar(n) == Value("scalar", "", n, <<>>)
Bool(n) == Value("bool", "", n, <<>>)
Valuer(n) == Value("valuer", "", n, <<>>)
Map == Value("map", "", 0, <<>>)
UntypedNil == Value("nil", "", 0, <<>>)
NilPtrTo(t) == Value("nilptr", t, 0, <<>>)
PtrTo(x) == Value("ptr", "", 0, <<x>>)
Slice(xs) == Value("slice", "", 0, xs)

\* A value of struct type t whose member i holds the scalar 10 * base + i (an
\* embedded member holds a struct built the same way from that number), so
\* that every field of every row holds a different value.
RECURSIVE StructOf(_, _)
StructOf(t, base) ==
    Value("struct", t, 0,
          [i \in 1..Len(TypeFields[t]) |->
              IF TypeFields[t][i].kind = "struct"
              THEN StructOf(TypeFields[t][i].elem, 10 * base + i)
              ELSE Scalar(10 * base + i)])

\* A slice of n rows of type t.
Rows(t, n) == Slice([r \in 1..n |-> StructOf(t, r)])

\* reflect.Value.FieldByIndex
RECURSIVE FieldByIndex(_, _)
FieldByIndex(x, index) ==
    IF Len(index) = 1 THEN x.elems[index[1] + 1]
    ELSE FieldByIndex(x.elems[index[1] + 1], Tail(index))

\* indirectType(reflect.TypeOf(x)): the kind and the name of the type of x
\* once pointers are removed; reflect.TypeOf(nil) is the nil Type.
RECURSIVE indirectType(_)
indirectType(x) ==
    CASE x.kind = "ptr" -> indirectType(x.elems[1])
      [] x.kind = "nilptr" -> [kind |-> IF x.t = "" THEN "scalar" ELSE "struct", t |-> x.t]
      [] OTHER -> [kind |-> x.kind, t |-> x.t]

(***************************************************************************)
(* dialect.go: the dialects                                                *)
(***************************************************************************)
Dialects == {"mysql", "postgres", "sqlite3"}

\* strings.ReplaceAll(s, old, new) for a one-character old
RECURSIVE ReplaceAll(_, _, _)
ReplaceAll(s, old, new) ==
    IF s = <<>> THEN <<>>
    ELSE (IF Head(s) = old THEN new ELSE <<Head(s)>>) \o ReplaceAll(Tail(s), old, new)

quoteBacktick(s) == <<BT>> \o ReplaceAll(s, BT, <<BT, BT>>) \o <<BT>>

\* strconv.Quote on the characters of the model: the double quote and the
\* backslash are escaped, every other character is printable and kept.
strconvQuote(s) ==
    <<DQ>> \o ReplaceAll(ReplaceAll(s, BS, <<BS, BS>>), DQ, <<BS, DQ>>) \o <<DQ>>

QuoteID(d, s) == IF d = "postgres" THEN strconvQuote(s) ELSE quoteBacktick(s)

Placeholder(d, n) == IF d = "postgres" THEN <<"$">> \o Itoa(n + 1) ELSE <<"?">>

quoteAndJoinIDs(d, ids) == Join([i \in 1..Len(ids) |-> QuoteID(d, ids[i])], <<",", " ">>)

(***************************************************************************)
(* dialect.go: expandParameter                                             *)
(*                                                                         *)
(* The strings.Builder w is the sequence of the strings written to it,     *)
(* each with its origin: "ph" a dialect placeholder, "lit" punctuation     *)
(* written by expandParameter, "cols" a column list, "text" a fragment of  *)
(* the query.  The statement is their concatenation.                       *)
(***************************************************************************)
Chunk(o, s) == [o |-> o, s |-> s]

Comma == Chunk("lit", <<",", " ">>)

Flatten(chunks) == Concat([i \in 1..Len(chunks) |-> chunks[i].s])

\* What a call of expandParameter did: status "ok", "error" (an error is
\* returned) or "panic"; w what it wrote, out what it returns, index the
\* value of *index when it ends.
Expanded(ws, os, index) == [status |-> "ok", err |-> "", w |-> ws, out |-> os, index |-> index]
Failed(status, err, ws, index) == [status |-> status, err |-> err, w |-> ws, out |-> <<>>, index |-> index]

\* One placeholder for one value: the scalar kinds, a driver.Valuer, a nil pointer.
expandOne(d, index, x) == Expanded(<<Chunk("ph", Placeholder(d, index))>>, <<x>>, index + 1)

\* The nil appended for a nil pointer.
NilArg == UntypedNil

\* Variant for C5: Every field of a record gets the number of the first.
expandFieldsOneNumber(d, index, x, bd, names) ==
    Expanded([j \in 1..(2 * Len(names) - 1) |->
                 IF j % 2 = 1 THEN Chunk("ph", Placeholder(d, index)) ELSE Comma],
             [i \in 1..Len(names) |-> FieldByIndex(x, bd.fieldMap[names[i]].index)],
             index + Len(names))

\* The loop over builder.filteredFields(withManaged) of case reflect.Struct.
expandFields(d, index, x, bd, names) ==
    Expanded([j \in 1..(2 * Len(names) - 1) |->
                 IF j % 2 = 1 THEN Chunk("ph", Placeholder(d, index + (j - 1) \div 2)) ELSE Comma],
             [i \in 1..Len(names) |-> FieldByIndex(x, bd.fieldMap[names[i]].index)],
             index + Len(names))

\* Variant for C3: The group is written without its parentheses.
Unwrapped(wrap, r) == r

\* The parentheses of case reflect.Struct around what the loop did.
Wrapped(wrap, r) ==
    IF wrap THEN [r EXCEPT !.w = <<Chunk("lit", <<"(">>)>> \o @ \o <<Chunk("lit", <<")">>)>>] ELSE r

expandStructWith(d, wm, wrap, index, x, mb) ==
    IF mb.err
    THEN Failed("error", "mapping", IF wrap THEN <<Chunk("lit", <<"(">>)>> ELSE <<>>, index)
    ELSE Wrapped(wrap, expandFields(d, index, x, mb.b, filteredFields(mb.b, wm)))

\* case reflect.Struct
expandStruct(d, wm, wrap, index, x) ==
    expandStructWith(d, wm, wrap, index, x, makeRowBuilderForType("struct", x.t))

\* Variant for C4: No separator between the rows.
noSeparator(i) == <<>>

\* The separator written before element i (from 0) of a slice.
sliceSeparator(i) == IF i > 0 THEN <<Comma>> ELSE <<>>

RECURSIVE expandParameter(_, _, _, _, _)
RECURSIVE expandElems(_, _, _, _, _, _)

\* case reflect.Slice, reflect.Array: elements i, i+1, ... (from 0).
\* out = append(out, children...), or the error of the first element that fails.
Appended(sep, child, rest) ==
    IF child.status # "ok" THEN Failed(child.status, child.err, sep \o child.w, child.index)
    ELSE IF rest.status # "ok"
    THEN Failed(rest.status, rest.err, sep \o child.w \o rest.w, rest.index)
    ELSE Expanded(sep \o child.w \o rest.w, child.out \o rest.out, rest.index)

expandRest(d, wm, wrap, elems, i, child) ==
    Appended(sliceSeparator(i), child,
             IF child.status = "ok" THEN expandElems(d, wm, wrap, child.index, elems, i + 1)
             ELSE child)

expandElems(d, wm, wrap, index, elems, i) ==
    IF i >= Len(elems) THEN Expanded(<<>>, <<>>, index)
    ELSE expandRest(d, wm, wrap, elems, i, expandParameter(d, wm, wrap, index, elems[i + 1]))

\* Variant for C13: the argument is skipped in silence.
unsupportedSkipped(index, x) == Expanded(<<>>, <<>>, index)

\* default: errors.Errorf("unsupported parameter %s", v.Type())
unsupported(index, x) == Failed("error", "unsupported parameter " \o x.kind, <<>>, index)

expandParameter(d, wm, wrap, index, x) ==
    CASE x.kind = "nil" -> Failed("panic", "zero Value", <<>>, index)
      [] x.kind = "valuer" -> expandOne(d, index, x)
      [] x.kind = "scalar" -> expandOne(d, index, x)
      [] x.kind \in {"slice", "array"} -> expandElems(d, wm, wrap, index, x.elems, 0)
      [] x.kind = "struct" -> expandStruct(d, wm, wrap, index, x)
      [] x.kind = "nilptr" -> expandOne(d, index, NilArg)
      [] x.kind = "ptr" -> expandParameter(d, wm, wrap, index, x.elems[1])
      [] OTHER -> unsupported(index, x)

(***************************************************************************)
(* dialect.go: expand, one action for each case of the switch in its loop  *)
(***************************************************************************)
NotReturned == [status |-> "none", err |-> "", n |-> 0, query |-> <<>>, args |-> <<>>]
\* return w.String(), out, nil
ReturnOk(ws, os) == [status |-> "ok", err |-> "", n |-> 0, query |-> Flatten(ws), args |-> os]
\* return "", nil, err (or the panic that ends the call)
ReturnErr(status, err, n) == [status |-> status, err |-> err, n |-> n, query |-> <<>>, args |-> <<>>]

\* Variant for C2: The bounds check one argument too early.
outOfRangeEarly(i, as) == i + 1 >= Len(as)

\* if argi >= len(args)
outOfRange(i, as) == i >= Len(as)

\* argi++
nextArgi(i, parameterArgs) == i + 1

\* The builder a wildcard takes its columns from: b, or the one derived from
\* the type of args[argi] when b is nil.
derived(mb) ==
    IF mb.err THEN [status |-> "error", err |-> "mapping", b |-> NilBuilder]
    ELSE [status |-> "ok", err |-> "", b |-> mb.b]

\* makeRowBuilderForType(reflect.TypeOf(args[argi]))
builderForType(it) ==
    IF it.kind = "nil" THEN [status |-> "panic", err |-> "nil Type", b |-> NilBuilder]
    ELSE derived(makeRowBuilderForType(it.kind, it.t))

\* Variant for C10: The columns are always those of the first argument.
paramBuilderOfFirst(bd, as, i) ==
    IF ~bd.nil THEN [status |-> "ok", err |-> "", b |-> bd]
    ELSE IF i >= Len(as) THEN [status |-> "panic", err |-> "index out of range", b |-> NilBuilder]
    ELSE builderForType(indirectType(as[1]))

paramBuilder(bd, as, i) ==
    IF ~bd.nil THEN [status |-> "ok", err |-> "", b |-> bd]
    ELSE IF i >= Len(as) THEN [status |-> "panic", err |-> "index out of range", b |-> NilBuilder]
    ELSE builderForType(indirectType(as[i + 1]))

\* Variant for C8: The names are joined as they are.
unquotedColumns(d, wm, pb) == Join(pb.fields, <<",", " ">>)

\* The columns a wildcard writes.
wildcardColumns(d, wm, pb) == quoteAndJoinIDs(d, pb.fields)

Looping == ret.status = "none" /\ mi <= Len(matches)

\* What the iteration on matches[mi] did (history).
Step(w1, out1, argi1) ==
    [tok |-> mi, group |-> matches[mi].group, arg |-> argi, arg1 |-> argi1,
     wFrom |-> Len(w) + 1, wTo |-> Len(w1), outFrom |-> Len(out) + 1, outTo |-> Len(out1),
     index |-> outIndex]

\* case match[1] == "?"
\* What follows the call of expandParameter, r being what the call did.
Expansion(r) ==
    IF r.status # "ok"
    THEN /\ ret' = ReturnErr(r.status, r.err, 0)
         /\ w' = w \o r.w
         /\ outIndex' = r.index
         /\ UNCHANGED <<mi, out, argi, bound>>
    ELSE /\ w' = w \o r.w
         /\ out' = out \o r.out
         /\ argi' = nextArgi(argi, r.out)
         /\ outIndex' = r.index
         /\ mi' = mi + 1
         /\ bound' = Append(bound, Step(w', out', argi'))
         /\ UNCHANGED ret

ExpandPlaceholder ==
    /\ Looping
    /\ matches[mi].group = 1
    /\ IF outOfRange(argi, args)
       THEN /\ ret' = ReturnErr("error", "outOfRange", argi)
            /\ UNCHANGED <<mi, w, out, argi, outIndex, bound>>
       ELSE Expansion(expandParameter(dialect, withManaged, TRUE, outIndex, args[argi + 1]))
    /\ UNCHANGED <<dialect, withManaged, b, query, args, matches, callVars>>

\* case match[2] == "**"
\* What follows the choice of paramBuilder, pb.
Columns(pb) ==
    IF pb.status # "ok"
    THEN /\ ret' = ReturnErr(pb.status, pb.err, 0)
         /\ UNCHANGED <<mi, w, bound>>
    ELSE /\ w' = Append(w, Chunk("cols", wildcardColumns(dialect, withManaged, pb.b)))
         /\ mi' = mi + 1
         /\ bound' = Append(bound, Step(w', out, argi))
         /\ UNCHANGED ret

ExpandWildcard ==
    /\ Looping
    /\ matches[mi].group = 2
    /\ Columns(paramBuilder(b, args, argi))
    /\ UNCHANGED <<dialect, withManaged, b, query, args, matches, out, argi, outIndex, callVars>>

\* default
WriteText ==
    /\ Looping
    /\ matches[mi].group \notin {1, 2}
    /\ w' = Append(w, Chunk("text", matches[mi].text))
    /\ mi' = mi + 1
    /\ bound' = Append(bound, Step(w', out, argi))
    /\ UNCHANGED <<dialect, withManaged, b, query, args, matches, out, argi, outIndex, ret, callVars>>

\* return w.String(), out, nil
Return ==
    /\ ret.status = "none"
    /\ mi > Len(matches)
    /\ ret' = ReturnOk(w, out)
    /\ UNCHANGED <<dialect, withManaged, b, query, args, matches, mi, w, out, argi, outIndex, bound, callVars>>

Next == ExpandPlaceholder \/ ExpandWildcard \/ WriteText \/ Return

(***************************************************************************)
(* The calls of expand that are explored                                   *)
(***************************************************************************)
\* No call of Insert or Select is under way.
NoInsert == [pc |-> "none", count |-> 0, bld |-> NilBuilder, ids |-> <<>>, i |-> 0,
             ret |-> [status |-> "none", err |-> "", ids |-> <<>>], rows0 |-> <<>>]
NoOps == [calls |-> 0, statement |-> <<>>, args |-> <<>>, result |-> [kind |-> "none"]]
NoSelect == [pc |-> "none", one |-> FALSE, dest |-> "", q |-> <<>>, as |-> <<>>, bld |-> NilBuilder,
             scanned |-> 0, ret |-> [status |-> "none", err |-> ""], cursor |-> "none"]

\* The goroutines that call makeRowBuilderForType, and the types they ask for.
Goroutines == {1, 2, 3}
CacheTypes == {"TPk", "TBadTag", "TTwoPk", "TDup", "TDash"}

\* A type without entry in rowBuilderCache; a goroutine outside makeRowBuilderForType.
NoEntry == [present |-> FALSE, id |-> 0, b |-> NilBuilder]
Outside == [pc |-> "out", t |-> "", fields |-> <<>>]

\* rowBuilderCache = map[reflect.Type]*builder{}, rowBuilderLock unlocked.
\* id numbers the builders allocated (a *builder is its number); derived,
\* stored and returned are history: the derivations run and the entries put
\* per type, and what the calls returned.
NoCache ==
    [cache |-> [t \in CacheTypes |-> NoEntry],
     readers |-> 0,
     writer |-> 0,
     g |-> [i \in Goroutines |-> Outside],
     calls |-> 0,
     allocs |-> 0,
     derived |-> [t \in CacheTypes |-> 0],
     stored |-> [t \in CacheTypes |-> 0],
     done |-> [t \in CacheTypes |-> 0],
     returned |-> {}]

\* No transaction.  work holds the statements executed in the transaction,
\* err the error the caller refers to ("" is nil), entry its value when
\* CommitOrRollbackOnError was entered, log the calls made on t.Tx, failed
\* those of them that returned an error, and committed whether the work is
\* visible to the other connections.
NoTx == [pc |-> "none", work |-> <<>>, err |-> "", entry |-> "", log |-> <<>>, failed |-> {},
         committed |-> FALSE]

\* The state on entry to the loop of expand.
Entry(d, wm, bd, q, as) ==
    /\ dialect = d
    /\ withManaged = wm
    /\ b = bd
    /\ query = q
    /\ args = as
    /\ matches = FindAllStringSubmatch(q)
    /\ mi = 1
    /\ w = <<>>
    /\ out = <<>>
    /\ argi = 0
    /\ outIndex = 0
    /\ ret = NotReturned
    /\ bound = <<>>
    /\ rows = <<>>
    /\ ins = NoInsert
    /\ ops = NoOps
    /\ sel = NoSelect
    /\ rb = NoCache
    /\ tx = NoTx

BuilderOf(t) == makeRowBuilderForType("struct", t).b

\* Every query of the characters ? * a and the single quote, with up to MaxArgs
\* arguments: a scalar, a record, a slice of records, a map.
QueryChars == {"?", "*", "a", SQ}
ArgValues == {Scalar(7), StructOf("TUser", 1), Rows("TUser", MaxRows), Map}
ArgLists == UNION {[1..n -> ArgValues] : n \in 0..MaxArgs}

InitGeneral ==
    \E d \in Dialects, wm \in BOOLEAN, bd \in {NilBuilder, BuilderOf("TUser")},
       q \in Strings(QueryChars, MaxQueryLen), as \in ArgLists :
        Entry(d, wm, bd, q, as)

\* One argument of every shape, alone or after a scalar.
RecordValues ==
    UNION {{StructOf(t, 1), PtrTo(StructOf(t, 1)), NilPtrTo(t)} \cup {Rows(t, n) : n \in 0..MaxRows}
           : t \in StructTypes}
RecordQueries == {<<"?">>, <<"?", "?">>, <<"*", "*", "?">>}

InitRecords ==
    \E d \in Dialects, wm \in BOOLEAN, bd \in {NilBuilder, BuilderOf("TAccount")},
       q \in RecordQueries, x \in RecordValues :
        \E as \in {<<x>>, <<Scalar(7), x>>} : Entry(d, wm, bd, q, as)

\* One argument of every kind, alone, after a scalar or before one.
KindValues ==
    {Scalar(7), Bool(1), Valuer(3), Map, UntypedNil, NilPtrTo(""), NilPtrTo("TUser"),
     PtrTo(Scalar(7)), PtrTo(Map), PtrTo(StructOf("TUser", 1)), PtrTo(PtrTo(StructOf("TMid", 1))),
     PtrTo(Rows("TUser", 1)), Slice(<<Scalar(7), Bool(1)>>), Slice(<<Scalar(7), Map>>),
     Slice(<<PtrTo(StructOf("TUser", 1)), NilPtrTo("TUser")>>), Slice(<<UntypedNil>>),
     Slice(<<Slice(<<Scalar(43), Scalar(1)>>), Slice(<<Scalar(39), Scalar(2)>>)>>),
     Slice(<<Slice(<<Scalar(5)>>)>>)}
KindQueries == {<<"?">>, <<"?", "a", "?">>}

InitKinds ==
    \E d \in Dialects, wm \in BOOLEAN, q \in KindQueries, x \in KindValues :
        \E as \in {<<x>>, <<Scalar(7), x>>, <<x, Scalar(7)>>} : Entry(d, wm, NilBuilder, q, as)

\* Every query of every character the lexer distinguishes.
LexChars == {"?", "*", "$", DQ, SQ, BT, "a"}

InitLex ==
    \E d \in Dialects, q \in Strings(LexChars, MaxLexLen),
       as \in {<<>>, <<Scalar(7)>>, <<Scalar(7), Scalar(8)>>} :
        Entry(d, TRUE, NilBuilder, q, as)

Init == InitGeneral \/ InitRecords \/ InitKinds

Spec == Init /\ [][Next]_vars

SpecLex == InitLex /\ [][Next]_vars

(***************************************************************************)
(* db.go: Insert, typeForMutationRows; dialect.go: the Insert of the       *)
(* dialects.  The call of expand inside Insert is made of the actions of   *)
(* expand above; the executor answers as it likes.                         *)
(***************************************************************************)
\* Most rows passed to Insert.
MaxInsertRows == 2

\* expand has not been called.
NotCalled == [status |-> "idle", err |-> "", n |-> 0, query |-> <<>>, args |-> <<>>]

\* expand(d, wm, bd, q, as) is called: the state on entry to its loop.
Call(d, wm, bd, q, as) ==
    /\ dialect' = d
    /\ withManaged' = wm
    /\ b' = bd
    /\ query' = q
    /\ args' = as
    /\ matches' = FindAllStringSubmatch(q)
    /\ mi' = 1
    /\ w' = <<>>
    /\ out' = <<>>
    /\ argi' = 0
    /\ outIndex' = 0
    /\ ret' = NotReturned
    /\ bound' = <<>>

expandVars == <<dialect, withManaged, b, query, args, matches, mi, w, out, argi, outIndex, ret, bound>>

\* indirectValue(reflect.ValueOf(x)): the value once pointers are followed;
\* the Elem of a nil pointer is the zero Value.
RECURSIVE indirectValue(_)
indirectValue(x) ==
    CASE x.kind = "ptr" -> indirectValue(x.elems[1])
      [] x.kind = "nilptr" -> UntypedNil
      [] OTHER -> x

\* typeForMutationRows: arg, count, and slice (first: slice is rows[0], a
\* slice; otherwise it is rows itself); t is the type of elems[0] of slice.
typeForMutationRows(rs) ==
    IF Len(rs) = 1 /\ rs[1].kind = "slice"
    THEN [arg |-> rs[1], count |-> Len(rs[1].elems), first |-> TRUE, elems |-> rs[1].elems]
    ELSE IF Len(rs) = 1
    THEN [arg |-> rs[1], count |-> 1, first |-> FALSE, elems |-> rs]
    ELSE [arg |-> Slice(rs), count |-> Len(rs), first |-> FALSE, elems |-> rs]

\* What Insert returns: ids is empty for a nil slice.
InsertOk(ids) == [status |-> "ok", err |-> "", ids |-> ids]
InsertErr(status, err, ids) == [status |-> status, err |-> err, ids |-> ids]

INSERT_INTO == <<"I", "N", "S", "E", "R", "T", " ", "I", "N", "T", "O", " ">>
VALUES == <<" ", "V", "A", "L", "U", "E", "S", " ", "?">>
RETURNING == <<" ", "R", "E", "T", "U", "R", "N", "I", "N", "G", " ">>
Table == <<"t">>

\* fmt.Sprintf(`INSERT INTO %s (%s) VALUES ?`, ...), and RETURNING for postgres with a pk
insertQuery(d, table, bd) ==
    INSERT_INTO \o QuoteID(d, table) \o <<" ", "(">>
        \o quoteAndJoinIDs(d, filteredFields(bd, FALSE)) \o <<")">> \o VALUES
        \o (IF d = "postgres" /\ bd.pk # <<>> THEN RETURNING \o QuoteID(d, bd.pk) ELSE <<>>)

\* Insert returns r without calling expand.
InsertReturns(r) ==
    /\ ins' = [ins EXCEPT !.pc = "done", !.ret = r]
    /\ UNCHANGED <<expandVars, rows, ops, sel, sysVars>>

\* The Insert of the dialect, from the builder of the row type on.
InsertWith(tfm, mb) ==
    IF mb.err THEN InsertReturns(InsertErr("error", "failed to map type", <<>>))
    ELSE IF mb.b.pk # <<>> /\ tfm.elems[1].kind = "struct"
    THEN InsertReturns(InsertErr("error", "can't set PK on value", <<>>))
    ELSE /\ Call(dialect, FALSE, mb.b, insertQuery(dialect, Table, mb.b), <<tfm.arg>>)
         /\ ins' = [ins EXCEPT !.pc = "expand", !.count = tfm.count, !.bld = mb.b]
         /\ UNCHANGED <<rows, ops, sel, sysVars>>

\* The Insert of the dialect: the type of the first row decides the builder.
InsertRowsOf(tfm, it) == InsertWith(tfm, makeRowBuilderForType(it.kind, it.t))

\* queryable.Insert, then the Insert of the dialect up to its call of expand.
InsertCall ==
    /\ ins.pc = "call"
    /\ IF Len(rows) = 0 THEN InsertReturns(InsertOk(<<>>))
       ELSE IF Len(rows) = 1 /\ indirectValue(rows[1]).kind = "slice" /\ indirectValue(rows[1]).elems = <<>>
       THEN InsertReturns(InsertOk(<<>>))
       ELSE IF Len(rows) = 1 /\ indirectValue(rows[1]).kind \notin {"slice", "struct"}
       THEN InsertReturns(InsertErr("error", "unexpected a slice or struct", <<>>))
       ELSE InsertRowsOf(typeForMutationRows(rows), indirectType(typeForMutationRows(rows).elems[1]))

\* Variant for C15: no dialect reports the first id.
idIsFirstNever(d) == FALSE

\* lastInsertMixin.idIsFirst of each dialect.
idIsFirst(d) == d = "mysql"

\* Variant for C16: the base is one too high.
baseOneHigh(lastID, count) == lastID - count + 1

\* base := lastID - int64(count)
base(lastID, count) == lastID - count

\* The ids of count rows, from what LastInsertId reports.
insertedIDs(first, lastID, count) ==
    [i \in 1..count |-> IF first THEN (i - 1) + lastID ELSE base(lastID, count) + 1 + (i - 1)]

\* x with ids written to the field at index (a Go index, from 0).
RECURSIVE SetInt(_, _, _)
SetInt(x, index, id) ==
    IF Len(index) = 1 THEN [x EXCEPT !.elems[index[1] + 1] = Scalar(id)]
    ELSE [x EXCEPT !.elems[index[1] + 1] = SetInt(x.elems[index[1] + 1], Tail(index), id)]

\* A row whose pk can be set: a pointer to a record (a record held in an
\* interface is not addressable, the Elem of a nil pointer is the zero Value).
Settable(row) == row.kind = "ptr" /\ indirectValue(row).kind = "struct"

\* row with pk id: the pointer is followed, the field at index is set.
RECURSIVE SetPK(_, _, _)
SetPK(row, index, id) ==
    IF row.kind = "ptr" THEN [row EXCEPT !.elems[1] = SetPK(row.elems[1], index, id)]
    ELSE SetInt(row, index, id)

\* The loop that sets the ids on the rows: the rows after it, and whether it panicked.
RECURSIVE SetPKs(_, _, _, _)
SetPKs(elems, ids, index, i) ==
    IF i > Len(elems) THEN [elems |-> elems, panic |-> FALSE]
    ELSE IF ~Settable(elems[i]) THEN [elems |-> elems, panic |-> TRUE]
    ELSE SetPKs([elems EXCEPT ![i] = SetPK(elems[i], index, ids[i])], ids, index, i + 1)

\* The rows of the caller once slice holds elems.
WithElems(rs, elems) ==
    IF typeForMutationRows(rs).first THEN <<[rs[1] EXCEPT !.elems = elems]>> ELSE elems

\* Insert returns ids after the loop over the rows did set.
AfterSetPKs(ids, set) ==
    /\ rows' = WithElems(rows, set.elems)
    /\ ins' = [ins EXCEPT !.pc = "done", !.ids = ids,
                          !.ret = IF set.panic THEN InsertErr("panic", "unaddressable value", <<>>)
                                  ELSE InsertOk(ids)]

\* Insert of lastInsertMixin with the ids computed.
WithIDs(ids) ==
    IF ins.bld.pk = <<>>
    THEN /\ ins' = [ins EXCEPT !.pc = "done", !.ids = ids, !.ret = InsertOk(ids)]
         /\ UNCHANGED rows
    ELSE AfterSetPKs(ids, SetPKs(typeForMutationRows(rows).elems, ids, ins.bld.fieldMap[ins.bld.pk].index, 1))

\* Insert of lastInsertMixin once ops.Exec has answered r.
LastInserted(r) ==
    IF r.kind = "error"
    THEN ins' = [ins EXCEPT !.pc = "done", !.ret = InsertErr("error", "failed to execute", <<>>)] /\ UNCHANGED rows
    ELSE IF r.affectedErr
    THEN ins' = [ins EXCEPT !.pc = "done", !.ret = InsertErr("error", "failed to count affected rows", <<>>)] /\ UNCHANGED rows
    ELSE IF r.affected # ins.count
    THEN ins' = [ins EXCEPT !.pc = "done", !.ret = InsertErr("error", "affected rows did not match row count", <<>>)] /\ UNCHANGED rows
    ELSE IF r.lastErr
    THEN ins' = [ins EXCEPT !.pc = "done", !.ret = InsertOk(<<>>)] /\ UNCHANGED rows
    ELSE WithIDs(insertedIDs(idIsFirst(dialect), r.lastID, ins.count))

\* The ids the executor may report.
LastIDs == {3, 10}

\* What ops.Exec may answer to an insert of n rows.
ExecResults(n) ==
    {[kind |-> "error", affected |-> 0, affectedErr |-> FALSE, lastID |-> 0, lastErr |-> FALSE]}
    \cup {[kind |-> "result", affected |-> a, affectedErr |-> FALSE, lastID |-> l, lastErr |-> e]
            : a \in {n - 1, n, n + 1}, l \in LastIDs, e \in BOOLEAN}
    \cup {[kind |-> "result", affected |-> n, affectedErr |-> TRUE, lastID |-> 0, lastErr |-> FALSE]}

\* expand failed: Insert returns its error.
ExpandFailed ==
    /\ ins' = [ins EXCEPT !.pc = "done", !.ret = InsertErr(ret.status, ret.err, <<>>)]
    /\ UNCHANGED <<rows, ops>>

\* ops.Exec(query, args...) and ops.Query(query, args...)
Executed(r) == ops' = [calls |-> ops.calls + 1, statement |-> ret.query, args |-> ret.args, result |-> r]

\* lastInsertMixin.Insert from the return of expand on.
InsertExec ==
    /\ ins.pc = "expand"
    /\ ret.status \notin {"none", "idle"}
    /\ dialect # "postgres"
    /\ IF ret.status # "ok" THEN ExpandFailed
       ELSE \E r \in ExecResults(ins.count) : Executed(r) /\ LastInserted(r)
    /\ UNCHANGED <<expandVars, sel, sysVars>>

\* What ops.Query may answer to an insert of n rows: an error, or rows of one
\* id each, of which the scan of row scanErr (from 1) fails, and an Err().
QueryResults(n) ==
    {[kind |-> "error", ids |-> <<>>, scanErr |-> 0, err |-> FALSE]}
    \cup {[kind |-> "rows", ids |-> [j \in 1..m |-> l + j - 1], scanErr |-> se, err |-> e]
            : m \in (IF n > 0 THEN n - 1 ELSE 0)..(n + 1), l \in LastIDs, se \in 0..MaxInsertRows, e \in BOOLEAN}

\* pqDialect.Insert once ops.Query has answered r.
Queried(r) ==
    IF r.kind = "error"
    THEN ins' = [ins EXCEPT !.pc = "done", !.ret = InsertErr("error", "failed to execute", <<>>)]
    ELSE IF ins.bld.pk = <<>>
    THEN ins' = [ins EXCEPT !.pc = "done", !.ret = InsertOk(<<>>)]
    ELSE ins' = [ins EXCEPT !.pc = "scan", !.i = 0, !.ids = <<>>]

\* pqDialect.Insert from the return of expand to the loop over outRows.
InsertQuery ==
    /\ ins.pc = "expand"
    /\ ret.status \notin {"none", "idle"}
    /\ dialect = "postgres"
    /\ IF ret.status # "ok" THEN ExpandFailed
       ELSE /\ \E r \in QueryResults(ins.count) : Executed(r) /\ Queried(r)
            /\ UNCHANGED rows
    /\ UNCHANGED <<expandVars, sel, sysVars>>

\* One iteration of for outRows.Next(): the id is scanned, appended and set on row i.
Scanned(elems, id) ==
    IF ops.result.scanErr = ins.i + 1
    THEN /\ ins' = [ins EXCEPT !.pc = "done", !.ret = InsertErr("error", "failed to scan inserted ID", <<>>)]
         /\ UNCHANGED rows
    ELSE IF ins.i >= Len(elems)
    THEN /\ ins' = [ins EXCEPT !.pc = "done", !.ids = Append(@, id),
                               !.ret = InsertErr("panic", "index out of range", <<>>)]
         /\ UNCHANGED rows
    ELSE IF ~Settable(elems[ins.i + 1])
    THEN /\ ins' = [ins EXCEPT !.pc = "done", !.ids = Append(@, id),
                               !.ret = InsertErr("panic", "unaddressable value", <<>>)]
         /\ UNCHANGED rows
    ELSE /\ ins' = [ins EXCEPT !.ids = Append(@, id), !.i = @ + 1]
         /\ rows' = WithElems(rows, [elems EXCEPT ![ins.i + 1] =
                                        SetPK(@, ins.bld.fieldMap[ins.bld.pk].index, id)])

InsertScan ==
    /\ ins.pc = "scan"
    /\ ins.i < Len(ops.result.ids)
    /\ Scanned(typeForMutationRows(rows).elems, ops.result.ids[ins.i + 1])
    /\ UNCHANGED <<expandVars, ops, sel, sysVars>>

\* return ids, outRows.Err()
InsertReturn ==
    /\ ins.pc = "scan"
    /\ ins.i >= Len(ops.result.ids)
    /\ ins' = [ins EXCEPT !.pc = "done",
                          !.ret = IF ops.result.err THEN InsertErr("error", "rows.Err", ins.ids)
                                  ELSE InsertOk(ins.ids)]
    /\ UNCHANGED <<expandVars, rows, ops, sel, sysVars>>

\* The calls of Insert that are explored: records of a type without a pk,
\* with a pk, and of a type that cannot be mapped, each row a record or a
\* pointer to one, passed one by one or as one slice; a scalar; a pointer to a slice.
InsertTypes == {"TUser", "TPk", "TBadTag", "TDup"}
Row(t, r, ptr) == IF ptr THEN PtrTo(StructOf(t, r)) ELSE StructOf(t, r)
InsertRows ==
    UNION {{[i \in 1..n |-> Row(t, i, p[i])] : p \in [1..n -> BOOLEAN]}
           \cup {<<Slice([i \in 1..n |-> Row(t, i, p)])>> : p \in BOOLEAN}
           : t \in InsertTypes, n \in 0..MaxInsertRows}
    \cup {<<Scalar(7)>>, <<PtrTo(Slice(<<StructOf("TUser", 1)>>))>>}

\* No call of expand is under way in the DB of dialect d.
Idle(d) ==
    /\ dialect = d
    /\ withManaged = FALSE
    /\ b = NilBuilder
    /\ query = <<>>
    /\ args = <<>>
    /\ matches = <<>>
    /\ mi = 1
    /\ w = <<>>
    /\ out = <<>>
    /\ argi = 0
    /\ outIndex = 0
    /\ ret = NotCalled
    /\ bound = <<>>

InitInsert ==
    \E d \in Dialects, rs \in InsertRows :
        /\ Idle(d)
        /\ rows = rs
        /\ ins = [NoInsert EXCEPT !.pc = "call", !.rows0 = rs]
        /\ ops = NoOps
        /\ sel = NoSelect
        /\ rb = NoCache
        /\ tx = NoTx

\* The statement of Insert holds no wildcard.
NextInsert ==
    InsertCall \/ ExpandPlaceholder \/ WriteText \/ Return
        \/ InsertExec \/ InsertQuery \/ InsertScan \/ InsertReturn

SpecInsert == InitInsert /\ [][NextInsert]_vars

(***************************************************************************)
(* db.go: Select, SelectOne, prepareSelect.  dest names the record type T  *)
(* of a destination *[]T (Select) or *T (SelectOne); it is empty for a     *)
(* destination of any other type.                                          *)
(***************************************************************************)
\* Most rows a query answers with.
MaxSelectRows == 2

SelectReturns(status, err) == sel' = [sel EXCEPT !.pc = "done", !.ret = [status |-> status, err |-> err]]

\* rows of q.db.Query(query, args...) when err is nil: an open cursor.
Opened(s) == [s EXCEPT !.cursor = "open"]

\* Variant: rows.Close() leaves the cursor as it is.
CloseForgotten(s) == s

\* rows.Close(), called in prepareSelect or deferred in Select and SelectOne.
Close(s) == [s EXCEPT !.cursor = "closed"]

\* A return of prepareSelect after _ = rows.Close() on the cursor just opened.
PrepareFails(err) ==
    sel' = Close(Opened([sel EXCEPT !.pc = "done", !.ret = [status |-> "error", err |-> err]]))

\* A return of Select or SelectOne after defer rows.Close().
SelectCloses(s, status, err) ==
    sel' = Close([s EXCEPT !.pc = "done", !.ret = [status |-> status, err |-> err]])

\* Select and SelectOne up to the call of expand in prepareSelect, mb being
\* what makeRowBuilderForType gives for the destination.
SelectWith(mb) ==
    IF mb.err
    THEN SelectReturns("error", "failed to map") /\ UNCHANGED expandVars
    ELSE /\ Call(dialect, TRUE, mb.b, sel.q, sel.as)
         /\ sel' = [sel EXCEPT !.pc = "expand", !.bld = mb.b]

\* makeRowBuilderForSlice(slice), makeRowBuilder(ref), then prepareSelect calls expand.
SelectCall ==
    /\ sel.pc = "call"
    /\ IF sel.dest = ""
       THEN SelectReturns("error", "failed to map") /\ UNCHANGED expandVars
       ELSE SelectWith(makeRowBuilderForType("struct", sel.dest))
    /\ UNCHANGED <<rows, ins, ops, sysVars>>

\* One column name that no field has.
Unmapped == <<"x">>

\* What q.db.Query may answer to a select into fields: an error, or rows of
\* which Columns() fails or gives columns, ColumnTypes() fails or not, with n
\* rows of which the scan of row scanErr (from 1) fails, and an Err().
ColumnLists(fields) ==
    UNION {[1..n -> {fields[i] : i \in 1..Len(fields)} \cup {Unmapped}]
           : n \in (Len(fields) - 1)..(Len(fields) + 1)}

SelectAnswers(fields) ==
    {[kind |-> k, columns |-> <<>>, typesErr |-> FALSE, n |-> 0, scanErr |-> 0, err |-> FALSE]
        : k \in {"error", "columnsErr"}}
    \cup {[kind |-> "rows", columns |-> cs, typesErr |-> te, n |-> n, scanErr |-> se, err |-> e]
            : cs \in ColumnLists(fields), te \in BOOLEAN, n \in 0..MaxSelectRows, se \in {0, 1}, e \in BOOLEAN}

\* The strict checks of prepareSelect: the error they end with, "" if none.
strictChecks(fields, columns) ==
    IF \E i \in 1..Len(columns) : columns[i] \notin {fields[j] : j \in 1..Len(fields)}
    THEN "no field maps to result column"
    ELSE IF Len(columns) # Len(fields) THEN "invalid mapping"
    ELSE ""

\* prepareSelect once q.db.Query has answered a.
Prepared(a) ==
    IF a.kind = "error" THEN SelectReturns("error", "failed to prepare select: query")
    ELSE IF a.kind = "columnsErr" THEN PrepareFails("failed to prepare select: columns")
    ELSE IF strictChecks(sel.bld.fields, a.columns) # ""
    THEN PrepareFails(strictChecks(sel.bld.fields, a.columns))
    ELSE IF ~sel.one /\ a.typesErr
    THEN SelectCloses(Opened(sel), "error", "failed to retrieve result column types")
    ELSE sel' = Opened([sel EXCEPT !.pc = "rows"])

\* prepareSelect from the return of expand on (and rows.ColumnTypes() of Select).
SelectPrepare ==
    /\ sel.pc = "expand"
    /\ ret.status \notin {"none", "idle"}
    /\ IF ret.status # "ok"
       THEN SelectReturns(ret.status, ret.err) /\ UNCHANGED ops
       ELSE \E a \in SelectAnswers(sel.bld.fields) : Executed(a) /\ Prepared(a)
    /\ UNCHANGED <<expandVars, rows, ins, sysVars>>

\* builder.build(columns) and builder.fill(ref, columns) find every column in fieldMap.
Buildable(bd, columns) == \A i \in 1..Len(columns) : columns[i] \in DOMAIN bd.fieldMap

\* One iteration of for rows.Next() in Select.
SelectScan ==
    /\ sel.pc = "rows"
    /\ ~sel.one
    /\ sel.scanned < ops.result.n
    /\ IF ~Buildable(sel.bld, ops.result.columns) THEN SelectCloses(sel, "panic", "unmapped field")
       ELSE IF ops.result.scanErr = sel.scanned + 1 THEN SelectCloses(sel, "error", "scan")
       ELSE sel' = [sel EXCEPT !.scanned = @ + 1]
    /\ UNCHANGED <<expandVars, rows, ins, ops, sysVars>>

\* return rows.Err()
SelectReturn ==
    /\ sel.pc = "rows"
    /\ ~sel.one
    /\ sel.scanned >= ops.result.n
    /\ IF ops.result.err THEN SelectCloses(sel, "error", "rows.Err") ELSE SelectCloses(sel, "ok", "")
    /\ UNCHANGED <<expandVars, rows, ins, ops, sysVars>>

\* SelectOne from the return of prepareSelect on.
SelectOneRow ==
    /\ sel.pc = "rows"
    /\ sel.one
    /\ IF ops.result.n = 0 THEN SelectCloses(sel, "error", "sql.ErrNoRows")
       ELSE IF ~Buildable(sel.bld, ops.result.columns) THEN SelectCloses(sel, "panic", "unmapped field")
       ELSE IF ops.result.scanErr = 1 THEN SelectCloses(sel, "error", "scan")
       ELSE IF ops.result.n > 1
       THEN SelectCloses([sel EXCEPT !.scanned = 1], "error", "more than one row returned")
       ELSE IF ops.result.err THEN SelectCloses([sel EXCEPT !.scanned = 1], "error", "rows.Err")
       ELSE SelectCloses([sel EXCEPT !.scanned = 1], "ok", "")
    /\ UNCHANGED <<expandVars, rows, ins, ops, sysVars>>

\* The calls of Select and SelectOne that are explored.
SelectDests == {"TPk", "TBadTag", ""}
SelectQueries == {<<"*", "*">>, <<"a", "?">>}

InitSelect ==
    \E d \in Dialects, one \in BOOLEAN, t \in SelectDests, q \in SelectQueries :
        /\ Idle(d)
        /\ rows = <<>>
        /\ ins = NoInsert
        /\ ops = NoOps
        /\ sel = [NoSelect EXCEPT !.pc = "call", !.one = one, !.dest = t, !.q = q, !.as = <<Scalar(7)>>]
        /\ rb = NoCache
        /\ tx = NoTx

NextSelect ==
    SelectCall \/ ExpandPlaceholder \/ ExpandWildcard \/ WriteText \/ Return
        \/ SelectPrepare \/ SelectScan \/ SelectReturn \/ SelectOneRow

SpecSelect == InitSelect /\ [][NextSelect]_vars

(***************************************************************************)
(* builder.go: makeRowBuilderForType as goroutines run it, one step per    *)
(* operation on rowBuilderLock or rowBuilderCache.                         *)
(***************************************************************************)
\* Most calls of makeRowBuilderForType, over all goroutines.
MaxCacheCalls == 4

\* What a call returns: (builder, nil) or (nil, err).
Answer(t, e) == [t |-> t, err |-> FALSE, id |-> e.id, b |-> e.b]
NoAnswer(t) == [t |-> t, err |-> TRUE, id |-> 0, b |-> NilBuilder]

\* The goroutine i leaves makeRowBuilderForType with answer a.
Left(r, i, a) ==
    [r EXCEPT !.g[i] = Outside, !.done[a.t] = @ + 1, !.returned = @ \cup {a}]

\* makeRowBuilderForType(t) is called (t is a struct type).
CacheCall(i, t) ==
    /\ rb.g[i].pc = "out"
    /\ rb.calls < MaxCacheCalls
    /\ rb' = [rb EXCEPT !.g[i] = [pc |-> "RLock", t |-> t, fields |-> <<>>], !.calls = @ + 1]

\* rowBuilderLock.RLock(): waits while a writer holds the lock.
RLock(i) ==
    /\ rb.g[i].pc = "RLock"
    /\ rb.writer = 0
    /\ rb' = [rb EXCEPT !.readers = @ + 1, !.g[i].pc = "read"]

\* rowBuilderLock.RUnlock()
RUnlocked(r) == [r EXCEPT !.readers = @ - 1]

\* if builder, ok := rowBuilderCache[t]; ok { RUnlock; return builder, nil }; RUnlock
ReadCache(i) ==
    /\ rb.g[i].pc = "read"
    /\ rb' = IF rb.cache[rb.g[i].t].present
             THEN Left(RUnlocked(rb), i, Answer(rb.g[i].t, rb.cache[rb.g[i].t]))
             ELSE [RUnlocked(rb) EXCEPT !.g[i].pc = "Lock"]

\* Variant: Lock() does not wait for anyone.
canLockAlways(r) == TRUE

\* rowBuilderLock.Lock() waits until no reader and no writer holds the lock.
canLock(r) == r.readers = 0 /\ r.writer = 0

Lock(i) ==
    /\ rb.g[i].pc = "Lock"
    /\ canLock(rb)
    /\ rb' = [rb EXCEPT !.writer = i, !.g[i].pc = "check"]

\* Variant: the deferred Unlock() is not run.
UnlockedNever(r) == r

\* defer rowBuilderLock.Unlock()
Unlocked(r) == [r EXCEPT !.writer = 0]

\* Upgrade and check it again.
CheckAgain(i) ==
    /\ rb.g[i].pc = "check"
    /\ rb' = IF rb.cache[rb.g[i].t].present
             THEN Left(Unlocked(rb), i, Answer(rb.g[i].t, rb.cache[rb.g[i].t]))
             ELSE [rb EXCEPT !.g[i].pc = "derive"]

\* fields, err := collectFieldIndexes(t), c being what it gives.
Derived(r, i, t, c) ==
    IF c.err THEN Left(Unlocked(r), i, NoAnswer(t))
    ELSE [r EXCEPT !.g[i].pc = "store", !.g[i].fields = c.fields]

Derive(i) ==
    /\ rb.g[i].pc = "derive"
    /\ rb' = Derived([rb EXCEPT !.derived[rb.g[i].t] = @ + 1], i, rb.g[i].t, collectFieldIndexes(rb.g[i].t))

\* b := &builder{...}; rowBuilderCache[t] = b; return b, nil
Stored(r, i, t, e) ==
    Left(Unlocked([r EXCEPT !.cache[t] = e, !.allocs = e.id, !.stored[t] = @ + 1]), i, Answer(t, e))

Store(i) ==
    /\ rb.g[i].pc = "store"
    /\ rb' = Stored(rb, i, rb.g[i].t,
                    [present |-> TRUE, id |-> rb.allocs + 1, b |-> newBuilder(rb.g[i].t, rb.g[i].fields)])

\* The variables makeRowBuilderForType leaves alone.
notCacheVars == <<expandVars, rows, ins, ops, sel, tx>>

Call_ == \E i \in Goroutines, t \in CacheTypes : CacheCall(i, t) /\ UNCHANGED notCacheVars
RLock_ == \E i \in Goroutines : RLock(i) /\ UNCHANGED notCacheVars
ReadCache_ == \E i \in Goroutines : ReadCache(i) /\ UNCHANGED notCacheVars
Lock_ == \E i \in Goroutines : Lock(i) /\ UNCHANGED notCacheVars
CheckAgain_ == \E i \in Goroutines : CheckAgain(i) /\ UNCHANGED notCacheVars
Derive_ == \E i \in Goroutines : Derive(i) /\ UNCHANGED notCacheVars
Store_ == \E i \in Goroutines : Store(i) /\ UNCHANGED notCacheVars

InitCache ==
    /\ Idle("mysql")
    /\ rows = <<>>
    /\ ins = NoInsert
    /\ ops = NoOps
    /\ sel = NoSelect
    /\ rb = NoCache
    /\ tx = NoTx

NextCache == Call_ \/ RLock_ \/ ReadCache_ \/ Lock_ \/ CheckAgain_ \/ Derive_ \/ Store_

SpecCache == InitCache /\ [][NextCache]_vars

(***************************************************************************)
(* db.go: Transaction.CommitOrRollbackOnError, and the work of a caller    *)
(* between Begin and it.                                                   *)
(***************************************************************************)
\* Most statements executed in a transaction.
MaxTxWork == 3

TxStatements == {"insert", "update"}

\* tx.Exec(...) by the caller: the statement is executed, or fails and the
\* caller's named error is set.
TxExec ==
    /\ tx.pc = "open"
    /\ tx.err = ""
    /\ Len(tx.work) < MaxTxWork
    /\ \E st \in TxStatements, ok \in BOOLEAN :
          tx' = IF ok THEN [tx EXCEPT !.work = Append(@, st)] ELSE [tx EXCEPT !.err = "exec"]
    /\ UNCHANGED <<expandVars, rows, ins, ops, sel, rb>>

\* Variant: the earlier revision, which rolls back after the commit as well.
terminalOfEarlier(err) == IF err = "" THEN <<"Commit", "Rollback">> ELSE <<"Rollback">>

\* The calls CommitOrRollbackOnError makes on t.Tx when *err is err.
terminalOf(err) == IF err = "" THEN <<"Commit">> ELSE <<"Rollback">>

\* *err after CommitOrRollbackOnError, the calls answering ok or not.
errAfter(err, commitOk, rollbackOk) ==
    IF err = "" THEN (IF commitOk THEN "" ELSE "commit")
    ELSE IF rollbackOk THEN err ELSE "rollback"

\* t.Tx after the calls in log: the work is visible once a Commit has succeeded.
Committed(log, commitOk) == log # <<>> /\ Head(log) = "Commit" /\ commitOk

\* The calls of log that returned an error.
FailedCalls(log, commitOk, rollbackOk) ==
    {log[i] : i \in {j \in 1..Len(log) : IF log[j] = "Commit" THEN ~commitOk ELSE ~rollbackOk}}

CommitOrRollbackOnError ==
    /\ tx.pc = "open"
    /\ \E commitOk \in BOOLEAN, rollbackOk \in BOOLEAN :
          tx' = [tx EXCEPT !.pc = "done",
                           !.entry = tx.err,
                           !.log = terminalOf(tx.err),
                           !.failed = FailedCalls(terminalOf(tx.err), commitOk, rollbackOk),
                           !.err = errAfter(tx.err, commitOk, rollbackOk),
                           !.committed = Committed(terminalOf(tx.err), commitOk)]
    /\ UNCHANGED <<expandVars, rows, ins, ops, sel, rb>>

\* After db.Begin(): an open transaction, the caller's error nil.
InitTx ==
    \E d \in Dialects :
        /\ Idle(d)
        /\ rows = <<>>
        /\ ins = NoInsert
        /\ ops = NoOps
        /\ sel = NoSelect
        /\ rb = NoCache
        /\ tx = [NoTx EXCEPT !.pc = "open"]

NextTx == TxExec \/ CommitOrRollbackOnError

SpecTx == InitTx /\ [][NextTx]_vars

(***************************************************************************)
(* What the claims speak of                                                *)
(***************************************************************************)
Returned == ret.status # "none"
Failure == ret.status \in {"error", "panic"}

\* The indexes in matches of the placeholder tokens, in order.
QMTokens == SelectSeq([i \in 1..Len(matches) |-> i], LAMBDA i : matches[i].group = 1)

\* The iterations done so far on tokens of group g.
StepsOf(g) == SelectSeq(bound, LAMBDA s : s.group = g)

\* What an iteration wrote and appended.
Written(s) == SubSeq(w, s.wFrom, s.wTo)
Bound(s) == SubSeq(out, s.outFrom, s.outTo)

\* The statement text of chunks with every placeholder replaced by the letter P.
Shape(chunks) == Concat([i \in 1..Len(chunks) |-> IF chunks[i].o = "ph" THEN <<"P">> ELSE chunks[i].s])

\* k placeholders separated by ", " in one pair of parentheses.
GroupShape(k) == <<"(">> \o Join([i \in 1..k |-> <<"P">>], <<",", " ">>) \o <<")">>

\* n such groups joined by ", ".
RowsShape(n, k) == Join([r \in 1..n |-> GroupShape(k)], <<",", " ">>)

\* A dialect placeholder, as the statement shows it.
IsPlaceholderText(d, s) ==
    IF d = "postgres" THEN Len(s) >= 2 /\ s[1] = "$" /\ \A i \in 2..Len(s) : s[i] \in {"0", "1", "2", "3", "4", "5", "6", "7", "8", "9"}
    ELSE s = <<"?">>

\* The members of record type t that are mapped to columns, depth first in
\* declaration order: [name, managed] of each.
RECURSIVE Leaves(_)
Leaves(t) ==
    Concat([i \in 1..Len(TypeFields[t]) |->
               IF TypeFields[t][i].kind = "struct"
               THEN Leaves(TypeFields[t][i].elem)
               ELSE <<[name |-> parseField(TypeFields[t][i], <<>>).field.name,
                       managed |-> parseField(TypeFields[t][i], <<>>).field.managed]>>])

\* The values of the included members of record x, depth first in declaration order.
RECURSIVE LeafValues(_, _)
LeafValues(x, wm) ==
    Concat([i \in 1..Len(TypeFields[x.t]) |->
               IF TypeFields[x.t][i].kind = "struct"
               THEN LeafValues(x.elems[i], wm)
               ELSE IF wm \/ ~parseField(TypeFields[x.t][i], <<>>).field.managed
               THEN <<x.elems[i]>>
               ELSE <<>>])

\* The record types whose tags are well formed.
Mappable(t) == ~collectFieldIndexes(t).err

\* A record, or a pointer to one.
IsRecord(x) == x.kind = "struct" \/ (x.kind = "ptr" /\ x.elems[1].kind = "struct")
RecordOf(x) == IF x.kind = "ptr" THEN x.elems[1] ELSE x

\* The identifiers that a quoted, ", "-joined column list denotes: ok is
\* false when the text is no such list.  An identifier is read from its
\* opening quote to the first closing quote that is not escaped (doubled for
\* the back-quote, after a backslash for the double quote).
RECURSIVE ReadID(_, _, _, _)
ReadID(d, s, j, acc) ==
    IF j > Len(s) THEN [ok |-> FALSE, name |-> acc, next |-> j]
    ELSE IF d = "postgres"
    THEN IF s[j] = BS /\ j < Len(s) THEN ReadID(d, s, j + 2, Append(acc, s[j + 1]))
         ELSE IF s[j] = DQ THEN [ok |-> TRUE, name |-> acc, next |-> j + 1]
         ELSE ReadID(d, s, j + 1, Append(acc, s[j]))
    ELSE IF s[j] = BT /\ j < Len(s) /\ s[j + 1] = BT THEN ReadID(d, s, j + 2, Append(acc, BT))
         ELSE IF s[j] = BT THEN [ok |-> TRUE, name |-> acc, next |-> j + 1]
         ELSE ReadID(d, s, j + 1, Append(acc, s[j]))

RECURSIVE ReadIDs(_, _, _)
ReadIDs(d, s, j) ==
    IF j > Len(s) \/ s[j] # (IF d = "postgres" THEN DQ ELSE BT)
    THEN [ok |-> FALSE, names |-> <<>>]
    ELSE LET id == ReadID(d, s, j + 1, <<>>)
             more == ReadIDs(d, s, id.next + 2)
         IN IF ~id.ok THEN [ok |-> FALSE, names |-> <<>>]
            ELSE IF id.next > Len(s) THEN [ok |-> TRUE, names |-> <<id.name>>]
            ELSE IF id.next + 1 > Len(s) \/ s[id.next] # "," \/ s[id.next + 1] # " "
            THEN [ok |-> FALSE, names |-> <<>>]
            ELSE [ok |-> more.ok, names |-> <<id.name>> \o more.names]

ColumnsRead(d, s) == IF s = <<>> THEN [ok |-> TRUE, names |-> <<>>] ELSE ReadIDs(d, s, 1)

\* An iteration on a wildcard wrote exactly the quoted list of names.
WroteColumns(s, names) ==
    /\ s.wTo = s.wFrom
    /\ w[s.wFrom].o = "cols"
    /\ ColumnsRead(dialect, w[s.wFrom].s) = [ok |-> TRUE, names |-> names]

\* The quoted spans of a query as the specification defines them: a quote
\* character outside a span opens a span that ends at the next occurrence of
\* the same character.  ok is false when a span is not terminated.
Quotes == {DQ, SQ, BT}

RECURSIVE SpansFrom(_, _)
SpansFrom(q, p) ==
    IF p > Len(q) THEN [ok |-> TRUE, inside |-> {}]
    ELSE IF q[p] \notin Quotes THEN SpansFrom(q, p + 1)
    ELSE IF IndexFrom(q, p + 1, q[p]) = 0 THEN [ok |-> FALSE, inside |-> {}]
    ELSE [ok |-> SpansFrom(q, IndexFrom(q, p + 1, q[p]) + 1).ok,
          inside |-> (p..IndexFrom(q, p + 1, q[p]))
                     \cup SpansFrom(q, IndexFrom(q, p + 1, q[p]) + 1).inside]

WellQuoted(q) == SpansFrom(q, 1).ok
InsideQuotes(q) == SpansFrom(q, 1).inside

\* How many placeholder characters outside the quoted spans come before position p.
FreeRank(q, p) == Cardinality({i \in 1..(p - 1) : q[i] = "?" /\ i \notin InsideQuotes(q)})

\* Where in the query the token of an iteration starts.
Pos(s) == matches[s.tok].pos

\* The names of the columns of record type t, the managed ones only if wm.
ColumnNames(t, wm) ==
    [i \in 1..Len(SelectSeq(Leaves(t), LAMBDA f : wm \/ ~f.managed)) |->
        SelectSeq(Leaves(t), LAMBDA f : wm \/ ~f.managed)[i].name]

\* The type of x, pointers removed, is a record type that can be mapped.
RecordTyped(x) == indirectType(x).kind = "struct" /\ Mappable(indirectType(x).t)

\* Every placeholder among chunks reads as one of dialect d.
PlaceholdersOf(d, chunks) == \A i \in 1..Len(chunks) : chunks[i].o = "ph" => IsPlaceholderText(d, chunks[i].s)

\* The iteration wrote nothing but a column list, consumed no argument and bound nothing.
OnlyColumns(s, names) == WroteColumns(s, names) /\ s.arg1 = s.arg /\ s.outTo < s.outFrom

(***************************************************************************)
(* C1                                                                      *)
(***************************************************************************)
\* C1: in a query whose quoted spans are all terminated, the k-th (from 0)
\* placeholder character outside the quoted spans is expanded from args[k].
C1_KthPlaceholderTakesKthArgument ==
    WellQuoted(query) =>
        \A i \in 1..Len(bound) :
            (bound[i].group = 1 /\ Pos(bound[i]) \notin InsideQuotes(query))
                => bound[i].arg = FreeRank(query, Pos(bound[i]))

(***************************************************************************)
(* C2                                                                      *)
(***************************************************************************)
QMCount == Len(QMTokens)

\* C2 (as stated): when the query holds more placeholder tokens than there are
\* bound arguments, expand returns the out-of-range error that names the
\* first placeholder without an argument, and neither text nor arguments.
C2_MorePlaceholdersThanArguments ==
    (Returned /\ QMCount > Len(args)) => ret = ReturnErr("error", "outOfRange", Len(args))

\* C2 (amended): when the query holds more placeholder tokens than there are
\* bound arguments, expand fails and returns neither text nor arguments; it
\* fails no later than the first placeholder without an argument, and the
\* failure is the out-of-range error, naming position len(args), exactly when
\* it is that placeholder which fails (an earlier token may fail for a reason
\* of its own).
C2_FailsAtOrBeforeFirstUnmatched ==
    (Returned /\ QMCount > Len(args)) =>
        /\ Failure
        /\ ret.query = <<>> /\ ret.args = <<>>
        /\ mi <= QMTokens[Len(args) + 1]
        /\ (mi = QMTokens[Len(args) + 1]) <=> (ret.err = "outOfRange")
        /\ ret.err = "outOfRange" => (ret.status = "error" /\ ret.n = Len(args))

C2_Witness == ret.err = "outOfRange" /\ Len(args) >= 1 /\ Len(out) >= 2

(***************************************************************************)
(* C3                                                                      *)
(***************************************************************************)
RecordExpanded(s, x) ==
    /\ Shape(Written(s)) = GroupShape(Len(LeafValues(x, withManaged)))
    /\ PlaceholdersOf(dialect, Written(s))
    /\ Bound(s) = LeafValues(x, withManaged)

\* C3: a placeholder bound to one record with k included fields writes "(",
\* k placeholders of the dialect separated by ", ", and ")", and appends the
\* values of those k fields in declaration order, in every dialect.
C3_RecordExpandsToOneGroup ==
    \A i \in 1..Len(bound) :
        (bound[i].group = 1 /\ IsRecord(args[bound[i].arg + 1]))
            => RecordExpanded(bound[i], RecordOf(args[bound[i].arg + 1]))

C3_Witness ==
    \E i \in 1..Len(bound) :
        /\ bound[i].group = 1
        /\ args[bound[i].arg + 1].kind = "struct"
        /\ args[bound[i].arg + 1].t = "TUser"
        /\ bound[i].index > 0
        /\ ~withManaged
        /\ dialect = "postgres"

(***************************************************************************)
(* C4                                                                      *)
(***************************************************************************)
IsRows(x) == x.kind = "slice" /\ \A r \in 1..Len(x.elems) : x.elems[r].kind = "struct"

RowsExpanded(s, x, k) ==
    /\ Shape(Written(s)) = RowsShape(Len(x.elems), k)
    /\ PlaceholdersOf(dialect, Written(s))
    /\ Bound(s) = Concat([r \in 1..Len(x.elems) |-> LeafValues(x.elems[r], withManaged)])
    /\ Len(Bound(s)) = Len(x.elems) * k

\* C4: a placeholder bound to a slice of N records with k included fields each
\* writes N parenthesised groups of k placeholders joined by ", ", with no
\* parentheses around the whole, and appends the N * k values row by row, each
\* row in declaration order.
C4_SliceExpandsToRowGroups ==
    \A i \in 1..Len(bound) :
        (bound[i].group = 1 /\ IsRows(args[bound[i].arg + 1]) /\ Len(args[bound[i].arg + 1].elems) > 0)
            => RowsExpanded(bound[i], args[bound[i].arg + 1],
                            Len(LeafValues(args[bound[i].arg + 1].elems[1], withManaged)))

C4_Witness ==
    \E i \in 1..Len(bound) :
        /\ bound[i].group = 1
        /\ IsRows(args[bound[i].arg + 1])
        /\ Len(args[bound[i].arg + 1].elems) >= 2
        /\ Len(Bound(bound[i])) >= 4
        /\ bound[i].index > 0
        /\ dialect = "postgres"

(***************************************************************************)
(* C5                                                                      *)
(***************************************************************************)
PlaceholdersWritten == SelectSeq(w, LAMBDA c : c.o = "ph")

\* C5: when expand succeeds, the statement holds as many placeholders as
\* there are returned arguments; for postgres they read $1, $2, ..., $m from
\* left to right whatever mixture of arguments produced them, for mysql and
\* sqlite each of them is ?.
C5_PlaceholdersNumberTheArguments ==
    ret.status = "ok" =>
        /\ ret.query = Flatten(w)
        /\ Len(PlaceholdersWritten) = Len(ret.args)
        /\ \A i \in 1..Len(PlaceholdersWritten) :
               PlaceholdersWritten[i].s = IF dialect = "postgres" THEN <<"$">> \o Itoa(i) ELSE <<"?">>

C5_Witness ==
    /\ ret.status = "ok"
    /\ dialect = "postgres"
    /\ Len(ret.args) >= 5
    /\ Len(StepsOf(1)) = 2
    /\ \E i \in 1..Len(args) : IsRows(args[i])
    /\ \E i \in 1..Len(args) : args[i].kind = "scalar"

(***************************************************************************)
(* C6                                                                      *)
(***************************************************************************)
\* C6: in a query whose quoted spans are all terminated, no ? and no ** inside
\* a span delimited by single quotes, double quotes or back-quotes is treated
\* as a token, wherever the span starts: none is expanded, and none is the
\* placeholder that an out-of-range error is about.
C6_QuotedSpansHoldNoTokens ==
    WellQuoted(query) =>
        /\ \A i \in 1..Len(bound) :
               bound[i].group \in {1, 2} => Pos(bound[i]) \notin InsideQuotes(query)
        /\ Failure => matches[mi].pos \notin InsideQuotes(query)

(***************************************************************************)
(* C7                                                                      *)
(***************************************************************************)
\* The characters of the query outside the tokens, in order.
RECURSIVE OutsideTokens(_, _)
OutsideTokens(q, p) ==
    IF p > Len(q) THEN <<>>
    ELSE IF \E i \in 1..Len(matches) :
                matches[i].group \in {1, 2} /\ p \in matches[i].pos..(matches[i].pos + Len(matches[i].text) - 1)
    THEN OutsideTokens(q, p + 1)
    ELSE <<q[p]>> \o OutsideTokens(q, p + 1)

TextWritten == Flatten(SelectSeq(w, LAMBDA c : c.o = "text"))

\* C7: when expand succeeds on a query whose quoted spans are all terminated,
\* the text it copied is every character of the query that is not part of a
\* ? or ** token, unchanged and in order.
C7_LiteralTextCopiedVerbatim ==
    (ret.status = "ok" /\ WellQuoted(query)) => TextWritten = OutsideTokens(query, 1)

C9_WildcardFollowsManagedPolicy ==
    ~b.nil =>
        \A i \in 1..Len(bound) :
            bound[i].group = 2 => WroteColumns(bound[i], ColumnNames(b.t, withManaged))

OnePlaceholder(s, v) ==
    /\ s.wTo = s.wFrom
    /\ w[s.wFrom].o = "ph"
    /\ IsPlaceholderText(dialect, w[s.wFrom].s)
    /\ Bound(s) = <<v>>

\* expand failed on the placeholder whose argument is of one of the kinds.
FailedOnKind(kinds) ==
    /\ Failure
    /\ matches[mi].group = 1
    /\ argi < Len(args)
    /\ args[argi + 1].kind \in kinds

\* C11: a placeholder whose argument is a numeric or string scalar, a boolean
\* or a value-encodable value writes exactly one placeholder and binds that
\* value unchanged; expand does not fail on it.
C11_ScalarIsOnePlaceholder ==
    /\ \A i \in 1..Len(bound) :
           (bound[i].group = 1 /\ args[bound[i].arg + 1].kind \in {"scalar", "bool", "valuer"})
               => OnePlaceholder(bound[i], args[bound[i].arg + 1])
    /\ ~FailedOnKind({"scalar", "bool", "valuer"})

(***************************************************************************)
(* C12                                                                     *)
(***************************************************************************)
\* What expanding value x alone, at output position index, writes and binds.
Alone(index, x) == expandParameter(dialect, withManaged, TRUE, index, x)

SameAsPointee(s, r) == r.status = "ok" /\ Written(s) = r.w /\ Bound(s) = r.out

\* C12: a placeholder whose argument is null or a nil pointer writes exactly
\* one placeholder and binds one null; expand does not fail on it; a non-nil
\* pointer expands exactly as the value it points to, parentheses included.
C12_NullIsOnePlaceholder ==
    /\ \A i \in 1..Len(bound) :
           (bound[i].group = 1 /\ args[bound[i].arg + 1].kind \in {"nil", "nilptr"})
               => OnePlaceholder(bound[i], NilArg)
    /\ ~FailedOnKind({"nil", "nilptr"})
    /\ \A i \in 1..Len(bound) :
           (bound[i].group = 1 /\ args[bound[i].arg + 1].kind = "ptr")
               => SameAsPointee(bound[i], Alone(bound[i].index, args[bound[i].arg + 1].elems[1]))

(***************************************************************************)
(* C13                                                                     *)
(***************************************************************************)
\* The kinds that are neither scalar, sequence, record, pointer, null nor
\* value-encodable: of the values explored, the map.
OtherKinds == {"map"}

\* C13: a placeholder whose argument is of any other kind (a map) is never
\* expanded: when expand reaches it, expand returns the unsupported-parameter
\* error that names the kind, and neither text nor arguments.
C13_OtherKindsAreUnsupported ==
    /\ \A i \in 1..Len(bound) :
           bound[i].group = 1 => args[bound[i].arg + 1].kind \notin OtherKinds
    /\ (Returned /\ mi <= Len(matches) /\ matches[mi].group = 1 /\ argi < Len(args)
           /\ args[argi + 1].kind \in OtherKinds)
        => /\ ret = ReturnErr("error", "unsupported parameter " \o args[argi + 1].kind, 0)
           /\ ret.query = <<>> /\ ret.args = <<>>

C13_Witness ==
    /\ FailedOnKind(OtherKinds)
    /\ argi = 1
    /\ Len(w) >= 1
    /\ ret.err = "unsupported parameter map"

(***************************************************************************)
(* C14                                                                     *)
(***************************************************************************)
HasEmbedded(t) == \E i \in 1..Len(TypeFields[t]) : TypeFields[t][i].kind = "struct"

\* The values of record x as C14 lists them: member by member in declaration
\* order, the members of an embedded record in place of the embedded member
\* (one level, which is what the types explored have).
InPlace(x, wm) ==
    Concat([i \in 1..Len(TypeFields[x.t]) |->
               IF TypeFields[x.t][i].kind = "struct" THEN x.elems[i].elems
               ELSE IF wm \/ TypeFields[x.t][i].tag \notin {<<",">> \o MANAGED} THEN <<x.elems[i]>>
               ELSE <<>>])

EmbeddedExpanded(s, x) ==
    /\ Shape(Written(s)) = GroupShape(Len(InPlace(x, withManaged)))
    /\ Len(SelectSeq(Written(s), LAMBDA c : c.s = <<"(">>)) = 1
    /\ Len(SelectSeq(Written(s), LAMBDA c : c.s = <<")">>)) = 1
    /\ Bound(s) = InPlace(x, withManaged)
    /\ Len(makeRowBuilderForType("struct", x.t).b.fields) = Len(InPlace(x, TRUE))
    /\ makeRowBuilderForType("struct", x.t).b.fields = ColumnNames(x.t, TRUE)

InsertDone == ins.pc = "done"
InsertSucceeded == InsertDone /\ ins.ret.status = "ok"

\* The rows as the caller passed them and as they are now, one by one.
RowsPassed == typeForMutationRows(ins.rows0).elems
RowsNow == typeForMutationRows(rows).elems
RowCount == Len(RowsPassed)

\* The member of record type t that is tagged as primary key, 0 if there is none.
PkMember(t) ==
    Last({i \in 1..Len(TypeFields[t]) :
             /\ TypeFields[t][i].hasTag
             /\ \E j \in 2..Len(Split(TypeFields[t][i].tag)) : Split(TypeFields[t][i].tag)[j] = PK})

\* The rows are records (or pointers to records) of a type with a primary key.
RowsHavePk ==
    /\ RowCount > 0
    /\ RecordTyped(RowsPassed[1])
    /\ PkMember(indirectType(RowsPassed[1]).t) > 0

\* The primary key of a row, as the caller sees it.
PkValue(row) == indirectValue(row).elems[PkMember(indirectValue(row).t)].v

\* The executor has answered the one statement of the call without an error of its own.
Answered ==
    /\ ops.calls = 1
    /\ ops.result.kind \in {"result", "rows"}

(***************************************************************************)
(* C15                                                                     *)
(***************************************************************************)
\* C15: on mysql, a successful Insert of N rows whose execution reports the
\* generated id F returns F, F+1, ..., F+N-1 in insertion order.
C15_MysqlIdsCountUpFromFirst ==
    (InsertSucceeded /\ dialect = "mysql" /\ Answered /\ ~ops.result.lastErr)
        => ins.ret.ids = [i \in 1..RowCount |-> ops.result.lastID + (i - 1)]

C15_Witness ==
    /\ InsertSucceeded /\ dialect = "mysql" /\ Answered /\ ~ops.result.lastErr
    /\ RowCount = 2
    /\ ins.ret.ids = <<10, 11>>

(***************************************************************************)
(* C16                                                                     *)
(***************************************************************************)
\* C16: on sqlite, a successful Insert of N rows whose execution reports the
\* generated id L returns L-N+1, ..., L in insertion order.
C16_SqliteIdsCountUpToLast ==
    (InsertSucceeded /\ dialect = "sqlite3" /\ Answered /\ ~ops.result.lastErr)
        => /\ Len(ins.ret.ids) = RowCount
           /\ \A i \in 1..RowCount : ins.ret.ids[i] = ops.result.lastID - RowCount + i

C16_Witness ==
    /\ InsertSucceeded /\ dialect = "sqlite3" /\ Answered /\ ~ops.result.lastErr
    /\ RowCount = 2
    /\ ins.ret.ids = <<9, 10>>

(***************************************************************************)
(* C17                                                                     *)
(***************************************************************************)
\* The execution reports generated ids (LastInsertId is supported).
IdsReported == Answered /\ (dialect = "postgres" \/ ~ops.result.lastErr)

\* C17: after a successful Insert of N rows, all passed as pointers, of a type
\* with a primary key, whose execution reports generated ids, Insert has
\* returned exactly N ids and the primary key of the caller's i-th row is
\* ids[i], on every dialect.
C17_PrimaryKeysAreTheReturnedIds ==
    (InsertSucceeded /\ IdsReported /\ RowsHavePk /\ \A i \in 1..RowCount : RowsPassed[i].kind = "ptr")
        => /\ Len(ins.ret.ids) = RowCount
           /\ \A i \in 1..RowCount : PkValue(RowsNow[i]) = ins.ret.ids[i]

(***************************************************************************)
(* C18                                                                     *)
(***************************************************************************)
\* How many rows the execution reports as inserted.
Reported == IF dialect = "postgres" THEN Len(ops.result.ids) ELSE ops.result.affected

\* The execution itself reports no error.
NoExecutionError ==
    IF dialect = "postgres" THEN ops.result.scanErr = 0 /\ ~ops.result.err
    ELSE ~ops.result.affectedErr

\* C18: on every dialect, when the execution reports a number of inserted
\* rows that differs from the number of rows passed, Insert fails with the
\* row-count-mismatch error, returns no ids and writes no id into any row.
C18_RowCountMismatchFails ==
    (InsertDone /\ Answered /\ NoExecutionError /\ Reported # RowCount)
        => /\ ins.ret = InsertErr("error", "affected rows did not match row count", <<>>)
           /\ rows = ins.rows0

(***************************************************************************)
(* C19                                                                     *)
(***************************************************************************)
\* C19: when the row type has a primary key and at least one row is passed as
\* a plain record, the executor is never called, and Insert fails with the
\* error that the primary key cannot be set.
C19_PlainRecordStopsInsertBeforeExecution ==
    (RowsHavePk /\ \E i \in 1..RowCount : RowsPassed[i].kind = "struct")
        => /\ ops.calls = 0
           /\ InsertDone => ins.ret = InsertErr("error", "can't set PK on value", <<>>)

(***************************************************************************)
(* C20                                                                     *)
(***************************************************************************)
\* The query of the call has answered with a list of columns, and with their
\* types where Select asks for them.
ColumnsAnswered == ops.calls = 1 /\ ops.result.kind = "rows" /\ ~ops.result.typesErr

\* The columns and the fields are the same names, each once.
SameNames(columns, fields) ==
    /\ {columns[i] : i \in 1..Len(columns)} = {fields[i] : i \in 1..Len(fields)}
    /\ Len(columns) = Len(fields)
    /\ Cardinality({columns[i] : i \in 1..Len(columns)}) = Len(columns)

\* C20: Select and SelectOne scan a row only if the columns of the result and
\* the fields of the destination are the same set of names and equal in
\* number, no column counted twice; for any other list of columns they fail
\* with a column-mapping error and no row is scanned.
C20_RowsScannedOnlyIfColumnsMatchFields ==
    ColumnsAnswered =>
        /\ sel.scanned > 0 => SameNames(ops.result.columns, ColumnNames(sel.dest, TRUE))
        /\ (sel.pc = "done" /\ ~SameNames(ops.result.columns, ColumnNames(sel.dest, TRUE)))
               => /\ sel.ret.status = "error"
                  /\ sel.ret.err \in {"no field maps to result column", "invalid mapping"}
                  /\ sel.scanned = 0

(***************************************************************************)
(* C21                                                                     *)
(***************************************************************************)
\* Select or SelectOne has returned an error after its query gave a cursor.
FailedWithCursor == sel.pc = "done" /\ sel.ret.status = "error" /\ ops.calls = 1 /\ ops.result.kind # "error"

\* C21: whenever Select or SelectOne returns an error after the query gave a
\* result cursor (columns not retrieved, column mapping mismatch, column types
\* not retrieved, scan failure, no row, more than one row, rows.Err), the
\* cursor is closed at the return; no return leaves a cursor open.
C21_CursorClosedOnEveryError ==
    /\ FailedWithCursor => sel.cursor = "closed"
    /\ sel.pc = "done" => sel.cursor # "open"

\* A scan of the second row of Select has failed, a mapping mismatch has been
\* found: each with the cursor closed.
C21_Witness ==
    /\ FailedWithCursor
    /\ sel.cursor = "closed"
    /\ sel.ret.err \in {"scan", "invalid mapping", "more than one row returned"}

(***************************************************************************)
(* C22, C23                                                                *)
(***************************************************************************)
\* The record shapes whose metadata can be derived.
Derivable(t) == ~collectFieldIndexes(t).err

\* What the calls for shape t have returned so far.
AnswersFor(t) == {a \in rb.returned : a.t = t}

\* An entry of the cache stays what it is.
EntriesKept == \A t \in CacheTypes : rb.cache[t].present => rb'.cache[t] = rb.cache[t]

\* Each derivable shape is derived and put into the cache at most once, every
\* caller gets the one builder of the cache, and that builder has the fields,
\* the fieldMap and the pk of the shape.
OneBuilderPerShape ==
    \A t \in CacheTypes :
        Derivable(t) =>
            /\ rb.derived[t] <= 1
            /\ rb.stored[t] <= 1
            /\ \A a \in AnswersFor(t) :
                  /\ ~a.err
                  /\ rb.cache[t].present
                  /\ a.id = rb.cache[t].id
                  /\ a.b = rb.cache[t].b
                  /\ a.b = BuilderOf(t)

\* C22: for any interleaving of concurrent makeRowBuilderForType calls on the
\* same record shape, the metadata is derived and inserted into the cache at
\* most once, an entry of the cache is never replaced, every caller receives
\* the same builder, and that builder has all its fields, fieldMap and pk set.
C22_MetadataDerivedOnceUnderContention == []OneBuilderPerShape /\ [][EntriesKept]_vars

\* A goroutine that found no entry under the read lock finds, once it holds
\* the write lock, the entry another goroutine has put and returned meanwhile.
C22_Witness ==
    \E i \in Goroutines :
        /\ rb.g[i].pc = "check"
        /\ rb.cache[rb.g[i].t].present
        /\ AnswersFor(rb.g[i].t) # {}

\* The lock is held by those inside the sections it guards, and by no one else.
LockHeldInside ==
    /\ rb.writer # 0 => rb.g[rb.writer].pc \in {"check", "derive", "store"}
    /\ rb.readers = Cardinality({i \in Goroutines : rb.g[i].pc = "read"})

\* A failed derivation leaves the cache as it is.
FailureKeepsCache ==
    \A i \in Goroutines :
        (rb.g[i].pc = "derive" /\ ~Derivable(rb.g[i].t) /\ rb'.g[i].pc = "out") => rb'.cache = rb.cache

\* A shape that cannot be derived has no entry, each of its calls that has
\* returned has failed after a derivation of its own.
NothingCachedOnFailure ==
    \A t \in CacheTypes :
        ~Derivable(t) =>
            /\ ~rb.cache[t].present
            /\ rb.stored[t] = 0
            /\ \A a \in AnswersFor(t) : a.err
            /\ rb.derived[t] = rb.done[t] + Cardinality({i \in Goroutines : rb.g[i].pc = "store" /\ rb.g[i].t = t})

\* C23: when the derivation for a shape fails, no entry for the shape is added
\* to the cache and the entries there are unchanged; a later call for the
\* shape runs the derivation again, and the lock is released so that later
\* calls are not blocked.
C23_FailedDerivationCachesNothing ==
    [](NothingCachedOnFailure /\ LockHeldInside) /\ [][FailureKeepsCache]_vars

\* The derivation of a shape has failed twice, an entry of another shape is
\* in the cache, and the lock is free.
C23_Witness ==
    /\ rb.derived["TBadTag"] >= 2
    /\ rb.done["TBadTag"] >= 2
    /\ rb.cache["TPk"].present
    /\ rb.writer = 0

(***************************************************************************)
(* C24, C25                                                                *)
(***************************************************************************)
\* The tags of the members of shape t that hold the option pk, those of the
\* embedded records included.
RECURSIVE PkTags(_)
PkTags(t) ==
    Concat([i \in 1..Len(TypeFields[t]) |->
               IF TypeFields[t][i].kind = "struct" THEN PkTags(TypeFields[t][i].elem)
               ELSE IF /\ TypeFields[t][i].hasTag
                       /\ \E j \in 2..Len(Split(TypeFields[t][i].tag)) : Split(TypeFields[t][i].tag)[j] = PK
               THEN <<TypeFields[t][i].tag>>
               ELSE <<>>])

\* The fields of builder bd that are primary keys.
PkFields(bd) == {i \in 1..Len(bd.fields) : bd.fieldMap[bd.fields[i]].pk}

\* C24: the derivation of the metadata of a shape in which more than one
\* member is tagged pk fails; so every metadata that is derived has at most
\* one primary-key field.
C24_SecondPrimaryKeyIsAnError ==
    \A a \in rb.returned :
        /\ Len(PkTags(a.t)) > 1 => a.err
        /\ ~a.err => Cardinality(PkFields(a.b)) <= 1

\* C25: every metadata that is derived has pairwise distinct field names in
\* its flattened field list, so the field list and the map from names to
\* fields have the same number of entries.
C25_FieldNamesAreDistinct ==
    \A a \in rb.returned :
        ~a.err =>
            /\ \A i, j \in 1..Len(a.b.fields) : a.b.fields[i] = a.b.fields[j] => i = j
            /\ Len(a.b.fields) = Cardinality(DOMAIN a.b.fieldMap)

(***************************************************************************)
(* C26                                                                     *)
(***************************************************************************)
\* CommitOrRollbackOnError has returned.
TxEnded == tx.pc = "done"

\* One call on t.Tx: Commit if the error was nil on entry, Rollback if not.
OneTerminalCall ==
    /\ Len(tx.log) = 1
    /\ tx.entry = "" => tx.log = <<"Commit">>
    /\ tx.entry # "" => tx.log = <<"Rollback">>

\* C26 as stated: CommitOrRollbackOnError makes exactly one terminal call on
\* the transaction, Commit when the referenced error is nil on entry and
\* Rollback otherwise; after it the work of the transaction is visible exactly
\* when the error was nil, and a successful commit leaves the error nil.
C26_VisibleExactlyWhenErrorWasNil ==
    TxEnded =>
        /\ OneTerminalCall
        /\ tx.committed <=> tx.entry = ""
        /\ (tx.log = <<"Commit">> /\ tx.failed = {}) => tx.err = ""

\* C26 amended: exactly one terminal call, Commit when the referenced error is
\* nil on entry and Rollback otherwise; the work is visible exactly when the
\* error was nil and the Commit succeeded.  A successful commit leaves the
\* error nil, a failed Commit or Rollback leaves its own error there, a
\* successful Rollback leaves the error as it was.
C26_OneTerminalCallCommitIfNil ==
    TxEnded =>
        /\ OneTerminalCall
        /\ tx.committed <=> (tx.entry = "" /\ tx.failed = {})
        /\ (tx.log = <<"Commit">> /\ tx.failed = {}) => tx.err = ""
        /\ "Commit" \in tx.failed => tx.err = "commit"
        /\ "Rollback" \in tx.failed => tx.err = "rollback"
        /\ (tx.log = <<"Rollback">> /\ tx.failed = {}) => tx.err = tx.entry

\* Work was done, the error was nil, and the Commit failed.
C26_Witness ==
    /\ TxEnded
    /\ Len(tx.work) >= 2
    /\ tx.entry = ""
    /\ tx.failed = {"Commit"}
    /\ ~tx.committed

(***************************************************************************)
(* C27                                                                     *)
(***************************************************************************)
\* The record type of the rows of the call.
InsertedType == indirectType(RowsPassed[1]).t

\* A group of k placeholders, the first of them numbered from.
PlaceholderGroup(d, k, from) ==
    <<"(">> \o Join([j \in 1..k |-> Placeholder(d, from + j - 1)], <<",", " ">>) \o <<")">>

\* The statement that inserts n rows into the columns names.
InsertOf(d, names, n) ==
    INSERT_INTO \o QuoteID(d, Table) \o <<" ", "(">> \o quoteAndJoinIDs(d, names) \o <<")">>
        \o SubSeq(VALUES, 1, Len(VALUES) - 1)
        \o Join([i \in 1..n |-> PlaceholderGroup(d, Len(names), (i - 1) * Len(names))], <<",", " ">>)

\* s is the statement st, with a RETURNING clause or without one.
IsStatement(s, st) ==
    /\ Len(s) >= Len(st)
    /\ SubSeq(s, 1, Len(st)) = st
    /\ Len(s) > Len(st) => SubSeq(s, Len(st) + 1, Len(st) + Len(RETURNING)) = RETURNING

\* C27: the statement Insert executes lists exactly the non-managed fields of
\* the shape as columns, in field order; every row group of its VALUES part
\* has as many placeholders as there are columns, bound to the values of
\* those fields of the row in the same order; managed fields are neither
\* columns nor bound values.
C27_InsertListsNonManagedFields ==
    ops.calls = 1 =>
        /\ IsStatement(ops.statement,
                       InsertOf(dialect, ColumnNames(InsertedType, FALSE), RowCount))
        /\ ops.args = Concat([i \in 1..RowCount |-> LeafValues(indirectValue(RowsPassed[i]), FALSE)])

(***************************************************************************)
(* C28                                                                     *)
(***************************************************************************)
\* The members of record type t whose whole tag is "-".
Omitted(t) == {i \in 1..Len(TypeFields[t]) : TypeFields[t][i].hasTag /\ TypeFields[t][i].tag = <<"-">>}

\* The names in a sequence of names.
NamesIn(names) == {names[j] : j \in 1..Len(names)}

\* No field of builder bd stands for member i (from 1) of its type.
NotMapped(bd, i) == \A n \in DOMAIN bd.fieldMap : bd.fieldMap[n].index # <<i - 1>>

\* The column list that step s wrote names neither "-" nor member f.
NotListed(s, f) ==
    /\ <<"-">> \notin NamesIn(ColumnsRead(dialect, w[s.wFrom].s).names)
    /\ f.snake \notin NamesIn(ColumnsRead(dialect, w[s.wFrom].s).names)

\* C28: a record member whose whole tag is "-" is left out of the mapping: it
\* is in no metadata field list, in no column list written for ** and in no
\* expansion of a record for ?.
C28_DashOmitsTheMember ==
    \A k \in 1..Len(bound) :
        (bound[k].arg < Len(args) /\ RecordTyped(args[bound[k].arg + 1]) /\ IsRecord(args[bound[k].arg + 1])) =>
            \A i \in Omitted(RecordOf(args[bound[k].arg + 1]).t) :
                /\ bound[k].group = 1 =>
                       /\ NotMapped(BuilderOf(RecordOf(args[bound[k].arg + 1]).t), i)
                       /\ RecordOf(args[bound[k].arg + 1]).elems[i] \notin NamesIn(Bound(bound[k]))
                /\ (bound[k].group = 2 /\ b.nil) =>
                       NotListed(bound[k], TypeFields[RecordOf(args[bound[k].arg + 1]).t][i])

(***************************************************************************)
(* C29                                                                     *)
(***************************************************************************)
\* x is a sequence of sequences of scalars.
SliceOfSlices(x) ==
    /\ x.kind = "slice"
    /\ x.elems # <<>>
    /\ \A i \in 1..Len(x.elems) :
          /\ x.elems[i].kind = "slice"
          /\ \A j \in 1..Len(x.elems[i].elems) : x.elems[i].elems[j].kind = "scalar"

\* One parenthesised group of placeholders for each inner sequence.
GroupsShape(x) == Join([i \in 1..Len(x.elems) |-> GroupShape(Len(x.elems[i].elems))], <<",", " ">>)

\* C29: the expansion of a sequence of sequences of scalars encloses each
\* inner sequence in parentheses of its own and joins the groups with ", "
\* (two pairs give ($1, $2), ($3, $4) on postgres and (?, ?), (?, ?) on
\* mysql), the arguments flattened in order.
C29_InnerSequencesAreParenthesised ==
    \A k \in 1..Len(bound) :
        (bound[k].group = 1 /\ SliceOfSlices(args[bound[k].arg + 1])) =>
            /\ Shape(Written(bound[k])) = GroupsShape(args[bound[k].arg + 1])
            /\ PlaceholdersOf(dialect, Written(bound[k]))
            /\ Bound(bound[k]) = Concat([i \in 1..Len(args[bound[k].arg + 1].elems) |->
                                            args[bound[k].arg + 1].elems[i].elems])

(***************************************************************************)
(* C30                                                                     *)
(***************************************************************************)
\* C30: on every dialect, whenever Insert returns an error (mapping,
\* expansion, execution, row count, scan of an id), no field of a row of the
\* caller has been modified during the call: ids are written into rows only
\* by a call that returns without error.
C30_FailedInsertLeavesRowsAlone ==
    (InsertDone /\ ins.ret.status = "error") => rows = ins.rows0

====
